---- MODULE Spec2Model ----
(***************************************************************************)
(* Recovery & position-lifecycle manager of the confluence strategy        *)
(* (src/trading_bot/strategies/confluence_strategy.py).                     *)
(*                                                                         *)
(* The strategy object (ConfluenceStrategy) is modelled from its source.   *)
(* RecoveryManager, its stop_out_tracker, the MT5 gateway and the signal   *)
(* detector are imported by the source but are not part of it: their       *)
(* operations are modelled from the specification and from the way the     *)
(* strategy calls them, and their decisions are inputs of the steps.       *)
(***************************************************************************)
EXTENDS Integers, Sequences, FiniteSets, TLC

\* ------------------------------------------------------------------ bounds
MaxTicket == 3          \* tickets the broker hands out in one run
MaxTime == 1            \* clock ticks of one run (one tick = one hour)
MaxRejects == 1         \* close calls the gateway may reject in one step
MaxStops == 2           \* stop-outs recorded within one window
MaxEntries == 1         \* entry signals taken in one run of the lifecycle

Symbols == {"EURUSD", "GBPUSD"}
Tickets == 1..MaxTicket
Words == {"Grid", "Hedge", "DCA"}
ProfitLevels == {-80, 10}
EntryVolumes == {4}     \* hundredths of a lot

\* ------------------------------------------------------- program constants
CascadeLossThreshold == 100   \* total unrealized loss that aborts management
Pc2LimitTicks == 1            \* 60 minutes after PC2
TrendBlockTicks == 1          \* TREND_BLOCK_MINUTES
StaleTicks == 2               \* 7200 seconds
CascadeStops == 2             \* stop-outs that make a cascade
CascadeWindowTicks == 0       \* the rolling stop-out window (under one hour)
Pc1Pips == 10                 \* partial_1_pips
Pc2Pips == 20                 \* partial_2_pips
VwapExitMaxPips == 10         \* vwap_exit_max_pips

\* ------------------------------------------------------------------ state
VARIABLES
    broker,                        \* open positions at the broker, by ticket
    nextTicket,                    \* the next ticket the broker hands out
    tracked,                       \* recovery_manager.tracked_positions
    stop_outs,                     \* recovery_manager.stop_out_tracker window
    cascade_blocks,                \* self.cascade_blocks
    market_trending_block,         \* self.market_trending_block
    recovery_stacks_reconstructed, \* self.recovery_stacks_reconstructed
    stats,                         \* self.stats
    running,                       \* self.running
    file,                          \* data/recovery_state.json
    temp_file,                     \* data/recovery_state.json.tmp
    loop_iteration,                \* loop_iteration of start()
    now,                           \* the clock
    pc,                            \* position of the control loop
    cur,                           \* the position the loop body is processing
    queue,                         \* positions of the pass still to process
    loop_at,                       \* symbols left and call reached in _trading_loop
    market_data_cache,             \* symbols of self.market_data_cache
    last_data_refresh,             \* self.last_data_refresh
    smc,                           \* SMCTradeBot with its SMCEntryStrategy
    short_bot,                     \* eurusd_short_bot: globals and terminal
    log                            \* gateway and tracker calls of the last step

vars == <<broker, nextTicket, tracked, stop_outs, cascade_blocks,
          market_trending_block, recovery_stacks_reconstructed, stats,
          running, file, temp_file, loop_iteration, now, pc, cur, queue,
          loop_at, market_data_cache, last_data_refresh, smc, short_bot, log>>

\* ---------------------------------------------------------------- helpers
Max(a, b) == IF a > b THEN a ELSE b

Remove(f, k) == [x \in DOMAIN f \ {k} |-> f[x]]

Put(f, k, v) == [x \in DOMAIN f \cup {k} |-> IF x = k THEN v ELSE f[x]]

EmptyMap == [x \in {} |-> 0]

Range(s) == {s[i] : i \in DOMAIN s}

RECURSIVE SetToSeq(_)
SetToSeq(S) ==
    IF S = {} THEN <<>>
    ELSE LET m == CHOOSE x \in S : \A y \in S : x <= y
         IN <<m>> \o SetToSeq(S \ {m})

RECURSIVE SumOver(_, _)
SumOver(S, f) ==
    IF S = {} THEN 0
    ELSE LET m == CHOOSE x \in S : TRUE
         IN f[m] + SumOver(S \ {m}, f)

Event(op, t, ok) == [op |-> op, ticket |-> t, ok |-> ok]

\* ------------------------------------------------ order comment convention
\* A comment is modelled by the tag words it contains and the parent ticket
\* it names: "VWAP:C5" has no tag word, "DCA L1 - 1001" has DCA and parent 1001.
Comment(words, parent) == [words |-> words, parent |-> parent]

EntryComment == Comment({}, 0)

ActionComment(action_type, parent) ==
    CASE action_type = "grid" -> Comment({"Grid"}, parent)
      [] action_type = "dca" -> Comment({"DCA"}, parent)
      [] action_type = "hedge" -> Comment({"Hedge"}, parent)
      [] OTHER -> Comment({"Hedge", "DCA"}, parent)

IsRecoveryOrder(comment) ==
    \/ "Grid" \in comment.words
    \/ "Hedge" \in comment.words
    \/ "DCA" \in comment.words

\* ------------------------------------------------------------- the gateway
BrokerPosition(symbol, comment, volume) ==
    [symbol |-> symbol, comment |-> comment, volume |-> volume]

\* mt5.close_position: succeeds on an open ticket the gateway does not reject
CloseOk(br, t, rejects) == t \in DOMAIN br /\ t \notin rejects

ClosePosition(br, t, rejects) == IF CloseOk(br, t, rejects) THEN Remove(br, t) ELSE br

\* ------------------------------------------------------ position tracker
\* RecoveryManager: the table tracked_positions and its operations.
NoTicket == 0

DcaEntry(t, pending) == [ticket |-> t, pending |-> pending]

HedgeEntry(t) == [ticket |-> t, dca_levels |-> <<>>]

NewPosition(symbol, volume, is_grid_child) ==
    [symbol |-> symbol,
     initial_volume |-> volume,
     is_grid_child |-> is_grid_child,
     recovery_active |-> FALSE,
     partial_1_closed |-> FALSE,
     partial_2_closed |-> FALSE,
     trailing_stop_active |-> FALSE,
     trailing_stop_price |-> 0,
     pc2_trigger_time |-> -1,
     dca_levels |-> <<>>,
     hedge_tickets |-> <<>>]

\* track_position: registers a standalone position; no-op if already tracked
TrackPosition(tr, t, symbol, volume, is_grid_child) ==
    IF t \in DOMAIN tr THEN tr
    ELSE Put(tr, t, NewPosition(symbol, volume, is_grid_child))

\* untrack_position: removes a standalone position and its nested metadata
UntrackPosition(tr, t) == Remove(tr, t)

\* store_recovery_ticket: attaches a DCA or hedge ticket to its parent
StoreRecoveryTicket(tr, original_ticket, recovery_ticket, action_type) ==
    IF original_ticket \notin DOMAIN tr THEN tr
    ELSE IF action_type = "hedge"
    THEN [tr EXCEPT ![original_ticket] =
            [@ EXCEPT !.hedge_tickets = Append(@, HedgeEntry(recovery_ticket)),
                      !.recovery_active = TRUE]]
    ELSE [tr EXCEPT ![original_ticket] =
            [@ EXCEPT !.dca_levels = Append(@, DcaEntry(recovery_ticket, FALSE)),
                      !.recovery_active = TRUE]]

RECURSIVE FilledTickets(_)
FilledTickets(levels) ==
    IF levels = <<>> THEN <<>>
    ELSE (IF Head(levels).ticket # NoTicket THEN <<Head(levels).ticket>> ELSE <<>>)
         \o FilledTickets(Tail(levels))

RECURSIVE HedgeStackTickets(_)
HedgeStackTickets(hedges) ==
    IF hedges = <<>> THEN <<>>
    ELSE <<Head(hedges).ticket>> \o FilledTickets(Head(hedges).dca_levels)
         \o HedgeStackTickets(Tail(hedges))

\* get_all_stack_tickets: original + DCA + hedges + hedge DCA, flattened
GetAllStackTickets(tr, original_ticket) ==
    IF original_ticket \notin DOMAIN tr THEN <<original_ticket>>
    ELSE <<original_ticket>> \o FilledTickets(tr[original_ticket].dca_levels)
         \o HedgeStackTickets(tr[original_ticket].hedge_tickets)

RECURSIVE StacksOf(_, _)
StacksOf(tr, originals) ==
    IF originals = <<>> THEN <<>>
    ELSE GetAllStackTickets(tr, Head(originals)) \o StacksOf(tr, Tail(originals))

\* Every slot of the tracker (top-level, DCA, hedge, hedge DCA), flattened.
AllSlots(tr) == StacksOf(tr, SetToSeq(DOMAIN tr))

\* The tickets the tracker holds in a child slot (not as a top-level key).
ChildTickets(tr) ==
    UNION {Range(GetAllStackTickets(tr, p)) \ {p} : p \in DOMAIN tr}

HedgeTicketsOf(pos) == {pos.hedge_tickets[i].ticket : i \in DOMAIN pos.hedge_tickets}

\* The tracked position that lists hedge_ticket among its hedges (0 if none).
OwnerOfHedge(tr, hedge_ticket) ==
    LET owners == {p \in DOMAIN tr : hedge_ticket \in HedgeTicketsOf(tr[p])}
    IN IF owners = {} THEN NoTicket ELSE CHOOSE p \in owners : \A q \in owners : p <= q

HedgeIndex(pos, hedge_ticket) ==
    LET idx == {i \in DOMAIN pos.hedge_tickets : pos.hedge_tickets[i].ticket = hedge_ticket}
    IN IF idx = {} THEN 0 ELSE CHOOSE i \in idx : \A j \in idx : i <= j

\* Attaches one recovery-tagged broker position to the parent its comment
\* names, unless the ticket already has a slot or the parent is not tracked.
LinkFromComment(tr, t, position) ==
    LET words == position.comment.words
        parent == position.comment.parent
        held == t \in Range(AllSlots(tr))
    IN IF held THEN tr
       ELSE IF "Grid" \in words
       THEN TrackPosition(tr, t, position.symbol, position.volume, TRUE)
       ELSE IF words = {"Hedge", "DCA"}
       THEN LET owner == OwnerOfHedge(tr, parent)
            IN IF owner = NoTicket THEN tr
               ELSE [tr EXCEPT ![owner].hedge_tickets[HedgeIndex(tr[owner], parent)].dca_levels =
                        Append(@, DcaEntry(t, FALSE))]
       ELSE IF words = {"Hedge"}
       THEN StoreRecoveryTicket(tr, parent, t, "hedge")
       ELSE IF words = {"DCA"}
       THEN StoreRecoveryTicket(tr, parent, t, "dca")
       ELSE tr

RECURSIVE LinkAll(_, _, _)
LinkAll(tr, tickets, positions) ==
    IF tickets = <<>> THEN tr
    ELSE LinkAll(LinkFromComment(tr, Head(tickets), positions[Head(tickets)]),
                 Tail(tickets), positions)

\* reconstruct_recovery_stacks: re-derives the parent/child links of the
\* recovery orders in the broker's list from their comment tags.
ReconstructRecoveryStacks(tr, positions) ==
    LinkAll(tr, SetToSeq({t \in DOMAIN positions : IsRecoveryOrder(positions[t].comment)}),
            positions)

RECURSIVE TrackAll(_, _, _)
TrackAll(tr, tickets, positions) ==
    IF tickets = <<>> THEN tr
    ELSE TrackAll(TrackPosition(tr, Head(tickets), positions[Head(tickets)].symbol,
                                positions[Head(tickets)].volume, FALSE),
                  Tail(tickets), positions)

RECURSIVE UntrackAll(_, _)
UntrackAll(tr, tickets) ==
    IF tickets = <<>> THEN tr
    ELSE UntrackAll(UntrackPosition(tr, Head(tickets)), Tail(tickets))

\* reconcile_with_mt5: (a) drops tracked tickets no longer open, (b) adopts
\* open positions not yet tracked, (c) returns {added, removed, validated}.
ReconcileWithMt5(tr, positions) ==
    LET gone == {t \in DOMAIN tr : t \notin DOMAIN positions}
        kept == UntrackAll(tr, SetToSeq(gone))
        fresh == {t \in DOMAIN positions :
                    ~IsRecoveryOrder(positions[t].comment) /\ t \notin DOMAIN kept}
        adopted == ReconstructRecoveryStacks(TrackAll(kept, SetToSeq(fresh), positions),
                                             positions)
    IN [tr |-> adopted,
        added |-> Len(AllSlots(adopted)) - Len(AllSlots(kept)),
        removed |-> Cardinality(gone),
        validated |-> Cardinality(DOMAIN kept)]

\* --------------------------------------------------- the place in the loop
\* _trading_loop walks the symbols and, inside one try block per symbol, calls
\* _refresh_market_data, _manage_positions and the signal check. loop_at holds
\* the symbols still to process (the head is the current one) and the call
\* that is next; NoLoop stands for handlers called in any order.
NoLoop == [symbols |-> <<>>, step |-> "free"]

SymbolList == <<"EURUSD", "GBPUSD">>

LoopStart == [symbols |-> SymbolList, step |-> "refresh"]

LoopAllows(step, symbol) ==
    \/ loop_at = NoLoop
    \/ loop_at.step = step /\ loop_at.symbols # <<>> /\ Head(loop_at.symbols) = symbol

\* The next call of the try block
LoopStep(l, step) == IF l = NoLoop THEN l ELSE [l EXCEPT !.step = step]

\* A loop that gives up the iteration when one symbol has failed.
LoopBreak(l) == IF l = NoLoop THEN l ELSE [symbols |-> <<>>, step |-> "sleep"]

\* The next symbol: the end of the try block, or "continue" in its handler
LoopContinue(l) ==
    IF l = NoLoop THEN l
    ELSE IF Tail(l.symbols) = <<>> THEN [symbols |-> <<>>, step |-> "sleep"]
    ELSE [symbols |-> Tail(l.symbols), step |-> "refresh"]

\* ------------------------------------------------- the strategy's handlers
\* A machine value m carries the objects a handler may change:
\*   tr tracked_positions, br the broker's open positions, next the broker's
\*   next ticket, stats, blocks cascade_blocks, trend market_trending_block,
\*   stops the stop-out window, file the state file, log the calls made.
Machine ==
    [tr |-> tracked, br |-> broker, next |-> nextTicket, stats |-> stats,
     blocks |-> cascade_blocks, trend |-> market_trending_block,
     stops |-> stop_outs, file |-> file, log |-> <<>>]

Commit(m) ==
    /\ tracked' = m.tr
    /\ broker' = m.br
    /\ nextTicket' = m.next
    /\ stats' = m.stats
    /\ cascade_blocks' = m.blocks
    /\ market_trending_block' = m.trend
    /\ stop_outs' = m.stops
    /\ file' = m.file
    /\ log' = m.log

Bump(st, key) == [st EXCEPT ![key] = @ + 1]

\* mt5.close_position(ticket) with its result logged
CloseTicket(m, t, rejects) ==
    [m EXCEPT !.br = ClosePosition(m.br, t, rejects),
              !.log = Append(@, Event("close", t, CloseOk(m.br, t, rejects)))]

\* A close loop that gives up at the first rejected close.
RECURSIVE CloseEachUntilFailure(_, _, _)
CloseEachUntilFailure(m, tickets, rejects) ==
    IF tickets = <<>> THEN m
    ELSE LET t == Head(tickets)
             ok == CloseOk(m.br, t, rejects)
             m1 == CloseTicket(m, t, rejects)
         IN IF ok
            THEN CloseEachUntilFailure([m1 EXCEPT !.stats = Bump(@, "trades_closed")],
                                       Tail(tickets), rejects)
            ELSE m1

\* The close loop of _close_recovery_stack: every ticket gets a close call.
RECURSIVE CloseEach(_, _, _)
CloseEach(m, tickets, rejects) ==
    IF tickets = <<>> THEN m
    ELSE LET t == Head(tickets)
             ok == CloseOk(m.br, t, rejects)
             m1 == CloseTicket(m, t, rejects)
             m2 == IF ok THEN [m1 EXCEPT !.stats = Bump(@, "trades_closed")] ELSE m1
         IN CloseEach(m2, Tail(tickets), rejects)

\* _close_recovery_stack
CloseRecoveryStack(m, original_ticket, rejects) ==
    LET stack_tickets == GetAllStackTickets(m.tr, original_ticket)
        m1 == CloseEach(m, stack_tickets, rejects)
    IN [m1 EXCEPT !.tr = UntrackPosition(@, original_ticket),
                  !.log = Append(@, Event("untrack", original_ticket, TRUE))]

\* mt5.place_order: a new ticket, or none when the gateway rejects the order
OrderTicket(m, accepted) == IF accepted /\ m.next <= MaxTicket THEN m.next ELSE NoTicket

PlaceOrder(m, symbol, comment, volume, accepted) ==
    LET ticket == OrderTicket(m, accepted)
    IN IF ticket = NoTicket
       THEN [m EXCEPT !.log = Append(@, Event("order", NoTicket, FALSE))]
       ELSE [m EXCEPT !.br = Put(@, ticket, BrokerPosition(symbol, comment, volume)),
                      !.next = @ + 1,
                      !.log = Append(@, Event("order", ticket, TRUE))]

\* An action dict as the recovery checks emit it; the comment of a hedge DCA
\* names the hedge it belongs to, the comment of the others the original.
RecoveryAction(action_type, symbol, volume, original_ticket, hedge_ticket) ==
    [action |-> action_type, symbol |-> symbol, volume |-> volume,
     comment |-> ActionComment(action_type,
                    IF action_type = "hedge_dca" THEN hedge_ticket ELSE original_ticket),
     original_ticket |-> original_ticket, hedge_ticket |-> hedge_ticket]

\* The hedge_dca branch of _execute_recovery_action: the new ticket fills the
\* pending last DCA level of the hedge it belongs to.
LinkHedgeDca(tr, original_ticket, hedge_ticket, ticket) ==
    IF original_ticket = NoTicket \/ original_ticket \notin DOMAIN tr THEN tr
    ELSE LET i == HedgeIndex(tr[original_ticket], hedge_ticket)
         IN IF i = 0 THEN tr
            ELSE LET levels == tr[original_ticket].hedge_tickets[i].dca_levels
                 IN IF levels # <<>> /\ levels[Len(levels)].pending
                    THEN [tr EXCEPT ![original_ticket].hedge_tickets[i].dca_levels[Len(levels)] =
                             DcaEntry(ticket, FALSE)]
                    ELSE tr

\* What _execute_recovery_action does once the order has a ticket.
LinkRecoveryOrder(m, action, ticket) ==
    IF action.action = "grid"
    THEN [m EXCEPT !.tr = TrackPosition(@, ticket, action.symbol, action.volume, TRUE),
                   !.stats = Bump(@, "grid_levels_added")]
    ELSE IF action.action = "hedge_dca"
    THEN [m EXCEPT !.tr = LinkHedgeDca(@, action.original_ticket, action.hedge_ticket, ticket),
                   !.stats = Bump(@, "dca_levels_added")]
    ELSE LET m1 == IF action.original_ticket # NoTicket
                   THEN [m EXCEPT !.tr = StoreRecoveryTicket(@, action.original_ticket,
                                                             ticket, action.action)]
                   ELSE m
         IN IF action.action = "hedge"
            THEN [m1 EXCEPT !.stats = Bump(@, "hedges_activated")]
            ELSE IF action.action = "dca"
            THEN [m1 EXCEPT !.stats = Bump(@, "dca_levels_added")]
            ELSE m1

\* An execution that links the order without looking at the ticket it got.
ExecuteRecoveryActionUnchecked(m, action, accepted) ==
    LinkRecoveryOrder(PlaceOrder(m, action.symbol, action.comment, action.volume, accepted),
                      action, OrderTicket(m, accepted))

\* _execute_recovery_action
ExecuteRecoveryAction(m, action, accepted) ==
    IF action.action \notin {"grid", "dca", "hedge", "hedge_dca"} THEN m
    ELSE LET m1 == PlaceOrder(m, action.symbol, action.comment, action.volume, accepted)
             ticket == OrderTicket(m, accepted)
         IN IF ticket = NoTicket THEN m1 ELSE LinkRecoveryOrder(m1, action, ticket)

\* ------------------------------------------------------- state persistence
\* Python None, JSON null, a JSON value other than null that Python holds
\* false ("", 0 or false), and a JSON string that is no ISO timestamp.
None == -1

JsonNull == <<>>

JsonFalsy == <<0>>

Garbage == <<-1>>

\* `if not value` on a value read from the state file
Falsy(v) == v \in {JsonNull, JsonFalsy}

\* datetime.isoformat / datetime.fromisoformat: a clock value (hours) as its
\* day and hour fields, and back.
IsoFormat(t) == <<t \div 24, t % 24>>

IsIso(s) == Len(s) = 2 /\ s[1] >= 0 /\ s[2] \in 0..23

FromIsoFormat(s) == s[1] * 24 + s[2]

\* self.cascade_blocks and the "cascade_blocks" object of the state file: a
\* dict keeps its keys in the order of insertion and json writes and reads an
\* object in the order of its members, so both are sequences of entries with
\* distinct symbols
BlockEntry(symbol, block_until) == [symbol |-> symbol, block_until |-> block_until]

NoBlocks == <<>>

BlockedSymbols(blocks) == {blocks[i].symbol : i \in DOMAIN blocks}

\* blocks[symbol]
BlockOf(blocks, symbol) ==
    blocks[CHOOSE i \in DOMAIN blocks : blocks[i].symbol = symbol].block_until

\* blocks[symbol] = block_until: a key already present keeps its place
SetBlock(blocks, symbol, block_until) ==
    IF symbol \in BlockedSymbols(blocks)
    THEN [i \in DOMAIN blocks |->
             IF blocks[i].symbol = symbol THEN BlockEntry(symbol, block_until)
             ELSE blocks[i]]
    ELSE Append(blocks, BlockEntry(symbol, block_until))

\* del blocks[symbol]
DelBlock(blocks, symbol) == SelectSeq(blocks, LAMBDA e : e.symbol # symbol)

\* The keys of the blocking state in a state document; `keys` of a document
\* are those of them it has
BlockingKeys == {"cascade_blocks", "market_trending_block", "last_block_update"}

EmptyDoc ==
    [positions |-> EmptyMap, keys |-> {}, cascade_blocks |-> NoBlocks,
     market_trending_block |-> EmptyMap, last_block_update |-> JsonNull]

MissingFile == [status |-> "missing", doc |-> EmptyDoc]

\* save_blocking_state: merges the blocking state into the existing document
\* and swaps the new document in; any exception leaves the file as it was.
SaveBlockingState(f, blocks, trend, t) ==
    IF f.status = "malformed" THEN f
    ELSE LET existing_state == IF f.status = "ok" THEN f.doc ELSE EmptyDoc
         IN [status |-> "ok",
             doc |-> [existing_state EXCEPT
                        !.keys = BlockingKeys,
                        !.cascade_blocks =
                            [i \in DOMAIN blocks |->
                                BlockEntry(blocks[i].symbol,
                                           IF blocks[i].block_until # None
                                           THEN IsoFormat(blocks[i].block_until)
                                           ELSE JsonNull)],
                        !.market_trending_block = trend,
                        !.last_block_update = IsoFormat(t)]]

\* The cascade_blocks loop of load_blocking_state: the entries are read in
\* the order of the file until one does not parse; those read before it stay.
\* An entry that Python holds false (null, "", 0, false) becomes None.
RECURSIVE ParseBlocks(_, _)
ParseBlocks(acc, saved) ==
    IF saved = <<>> THEN [ok |-> TRUE, blocks |-> acc]
    ELSE LET s == Head(saved).symbol
             v == Head(saved).block_until
         IN IF Falsy(v) THEN ParseBlocks(SetBlock(acc, s, None), Tail(saved))
            ELSE IF IsIso(v)
            THEN ParseBlocks(SetBlock(acc, s, FromIsoFormat(v)), Tail(saved))
            ELSE [ok |-> FALSE, blocks |-> acc]

\* The order in which cascade_info['symbols'] lists the affected symbols
SymbolOrder(S) ==
    IF S = {} THEN <<>>
    ELSE IF S = {"EURUSD"} THEN <<"EURUSD">>
    ELSE IF S = {"GBPUSD"} THEN <<"GBPUSD">>
    ELSE <<"EURUSD", "GBPUSD">>

\* load_blocking_state: [ok, blocks, trend] from the file, the in-memory maps
\* and the clock; a missing or unreadable file returns False. Each of the
\* three keys is read if the document has it; an exception (an entry or a
\* last_block_update that is no timestamp) returns False and keeps what was
\* assigned before it.
LoadBlockingState(f, blocks, trend, t) ==
    IF f.status # "ok" THEN [ok |-> FALSE, blocks |-> blocks, trend |-> trend]
    ELSE LET state == f.doc
             parsed == IF "cascade_blocks" \in state.keys
                       THEN ParseBlocks(NoBlocks, state.cascade_blocks)
                       ELSE [ok |-> TRUE, blocks |-> blocks]
             trend1 == IF "market_trending_block" \in state.keys
                       THEN state.market_trending_block ELSE trend
         IN IF ~parsed.ok THEN [ok |-> FALSE, blocks |-> parsed.blocks, trend |-> trend]
            ELSE IF "last_block_update" \notin state.keys
            THEN [ok |-> TRUE, blocks |-> parsed.blocks, trend |-> trend1]
            ELSE IF ~IsIso(state.last_block_update)
            THEN [ok |-> FALSE, blocks |-> parsed.blocks, trend |-> trend1]
            ELSE IF t - FromIsoFormat(state.last_block_update) > StaleTicks
            THEN [ok |-> TRUE, blocks |-> NoBlocks, trend |-> EmptyMap]
            ELSE [ok |-> TRUE, blocks |-> parsed.blocks, trend |-> trend1]

\* ------------------------------------------------------------ construction
NoStats ==
    [trades_opened |-> 0, trades_closed |-> 0, grid_levels_added |-> 0,
     hedges_activated |-> 0, dca_levels_added |-> 0]

\* imports_bound: the local names get_current_time and timedelta of the running
\* call of _manage_positions are bound (its from-imports have been executed)
NoCur ==
    [symbol |-> "", ticket |-> NoTicket, comment |-> EntryComment, profit |-> 0,
     volume |-> 0, todo |-> <<>>, imports_bound |-> FALSE]

\* The other two programs of the repository, not started
NoSmc == [at |-> "off"]

NoShortBot == [at |-> "off"]

\* ConfluenceStrategy.__init__, with no state file and no open position.
Init ==
    /\ broker = EmptyMap
    /\ nextTicket = 1
    /\ tracked = EmptyMap
    /\ stop_outs = <<>>
    /\ cascade_blocks = NoBlocks
    /\ market_trending_block = EmptyMap
    /\ recovery_stacks_reconstructed = FALSE
    /\ stats = NoStats
    /\ running = FALSE
    /\ loop_at = NoLoop
    /\ market_data_cache = {}
    /\ last_data_refresh = EmptyMap
    /\ temp_file = MissingFile
    /\ smc = NoSmc
    /\ short_bot = NoShortBot
    /\ loop_iteration = 0
    /\ file = MissingFile
    /\ now = 0
    /\ pc = "boot"
    /\ cur = NoCur
    /\ queue = <<>>
    /\ log = <<>>

\* ------------------------------------------------------------------ start
\* load_state: the positions of the state file and the truth value start()
\* tests; a missing or unreadable file is no state.
LoadState(f) ==
    IF f.status = "ok" THEN [loaded |-> TRUE, tr |-> f.doc.positions]
    ELSE [loaded |-> FALSE, tr |-> EmptyMap]

\* start(): load_state, then reconcile_with_mt5 against the broker's list,
\* whatever load_state returned
StartLoadState ==
    /\ pc = "boot"
    /\ LET l == LoadState(file)
           r == ReconcileWithMt5(l.tr, broker)
       IN /\ tracked' = r.tr
          /\ log' = <<Event("added", r.added, l.loaded),
                      Event("removed", r.removed, l.loaded),
                      Event("validated", r.validated, l.loaded)>>
          /\ pc' = "boot_blocks"
    /\ UNCHANGED <<loop_at, market_data_cache, last_data_refresh,
                   smc, short_bot, temp_file, loop_iteration, broker, nextTicket, stop_outs,
                   cascade_blocks, market_trending_block,
                   recovery_stacks_reconstructed, stats, running, file, now,
                   cur, queue>>

\* start(): load_blocking_state
StartLoadBlocking ==
    /\ pc = "boot_blocks"
    /\ LET l == LoadBlockingState(file, cascade_blocks, market_trending_block, now)
       IN /\ cascade_blocks' = l.blocks
          /\ market_trending_block' = l.trend
          /\ log' = <<Event("load_blocking_state", NoTicket, l.ok)>>
    /\ pc' = "boot_eval"
    /\ UNCHANGED <<loop_at, market_data_cache, last_data_refresh,
                   smc, short_bot, temp_file, loop_iteration, broker, nextTicket, tracked,
                   stop_outs, recovery_stacks_reconstructed, stats, running,
                   file, now, cur, queue>>

\* start(): the startup market-state evaluation of every symbol, the save of
\* the blocking state, and the entry into the main loop
StartEvaluate(should_block) ==
    /\ pc = "boot_eval"
    /\ LET trend == [s \in DOMAIN market_trending_block \cup Symbols |->
                        IF s \in Symbols THEN should_block[s] ELSE market_trending_block[s]]
       IN /\ market_trending_block' = trend
          /\ file' = SaveBlockingState(file, cascade_blocks, trend, now)
    /\ running' = TRUE
    /\ pc' = "idle"
    /\ log' = <<Event("save_blocking_state", NoTicket, file.status # "malformed")>>
    /\ UNCHANGED <<loop_at, market_data_cache, last_data_refresh,
                   smc, short_bot, temp_file, loop_iteration, broker, nextTicket, tracked,
                   stop_outs, cascade_blocks, recovery_stacks_reconstructed,
                   stats, now, cur, queue>>

\* ------------------------------------------------------ stop-out window
StopOutEvent(symbol, t, adx) == [symbol |-> symbol, time |-> t, adx |-> adx]

RECURSIVE InWindow(_, _)
InWindow(stops, t) ==
    IF stops = <<>> THEN <<>>
    ELSE (IF t - Head(stops).time <= CascadeWindowTicks THEN <<Head(stops)>> ELSE <<>>)
         \o InWindow(Tail(stops), t)

\* ------------------------------------------------------------ environment
Tick ==
    /\ pc = "idle"
    /\ loop_at = NoLoop
    /\ now < MaxTime
    /\ now' = now + 1
    /\ stop_outs' = InWindow(stop_outs, now + 1)
    /\ log' = <<>>
    /\ UNCHANGED <<loop_at, market_data_cache, last_data_refresh,
                   smc, short_bot, temp_file, loop_iteration, broker, nextTicket, tracked,
                   cascade_blocks, market_trending_block,
                   recovery_stacks_reconstructed, stats, running, file, pc, cur,
                   queue>>

\* ------------------------------------------------------------ new entries
\* _execute_signal for a signal on symbol: the cascade block and trending
\* block gates, then the entry order and its tracking.
\* A test that lets entries through whatever the trend block says
NeverTrendingBlocked(trend, symbol) == FALSE

\* market_trending_block.get(symbol, False)
TrendingBlocked(trend, symbol) == symbol \in DOMAIN trend /\ trend[symbol]

ExecuteSignal(symbol, volume, accepted) ==
    /\ pc = "idle"
    /\ LoopAllows("signals", symbol)
    /\ loop_at' = LoopContinue(loop_at)
    /\ LET m == Machine
           blocked == /\ symbol \in BlockedSymbols(m.blocks)
                      /\ now < BlockOf(m.blocks, symbol)
           m1 == IF symbol \in BlockedSymbols(m.blocks) /\ ~blocked
                 THEN [m EXCEPT !.blocks = DelBlock(@, symbol)]
                 ELSE m
           trending == TrendingBlocked(m.trend, symbol)
           m2 == PlaceOrder(m1, symbol, EntryComment, volume, accepted)
           ticket == OrderTicket(m1, accepted)
           m3 == IF ticket = NoTicket THEN m2
                 ELSE [m2 EXCEPT !.stats = Bump(@, "trades_opened"),
                                 !.tr = TrackPosition(@, ticket, symbol, volume, FALSE)]
       IN IF symbol \in BlockedSymbols(m.blocks) /\ BlockOf(m.blocks, symbol) = None
          THEN Commit([m EXCEPT !.log = <<Event("TypeError", NoTicket, FALSE)>>])
          ELSE IF blocked THEN Commit([m EXCEPT !.log = <<Event("blocked", NoTicket, FALSE)>>])
          ELSE IF trending THEN Commit([m1 EXCEPT !.log = <<Event("trending", NoTicket, FALSE)>>])
          ELSE Commit([m3 EXCEPT !.log = <<>>])
    /\ UNCHANGED <<market_data_cache, last_data_refresh,
                   smc, short_bot, temp_file, loop_iteration, recovery_stacks_reconstructed,
                   running, now, pc, cur, queue>>

\* ------------------------------------------------------ _manage_positions
RejectSets(S) == {r \in SUBSET S : Cardinality(r) <= MaxRejects}

\* mt5.get_positions: the open positions as dicts, with the profit of the call
PositionDict(br, profits, t) ==
    [ticket |-> t, symbol |-> br[t].symbol, comment |-> br[t].comment,
     profit |-> profits[t], volume |-> br[t].volume]

RECURSIVE PositionList(_, _, _)
PositionList(br, profits, tickets) ==
    IF tickets = <<>> THEN <<>>
    ELSE <<PositionDict(br, profits, Head(tickets))>>
         \o PositionList(br, profits, Tail(tickets))

GetPositions(br, profits, symbol) ==
    PositionList(br, profits, SetToSeq({t \in DOMAIN br : br[t].symbol = symbol}))

CurOf(position) ==
    [symbol |-> position.symbol, ticket |-> position.ticket, comment |-> position.comment,
     profit |-> position.profit, volume |-> position.volume, todo |-> <<>>,
     imports_bound |-> FALSE]

\* The crash-recovery block of the first pass: track every untagged position
\* that is not tracked yet, then reconstruct the recovery stacks.
TrackOriginals(tr, all_positions) ==
    TrackAll(tr, SetToSeq({t \in DOMAIN all_positions :
                             /\ ~IsRecoveryOrder(all_positions[t].comment)
                             /\ t \notin DOMAIN tr}),
             all_positions)

CrashRecovery(tr, all_positions) ==
    LET tr1 == TrackOriginals(tr, all_positions)
    IN IF DOMAIN all_positions # {} THEN ReconstructRecoveryStacks(tr1, all_positions)
       ELSE tr1

\* The trading-window closure loop: negative positions of the symbol are
\* closed one by one, and each closed ticket is untracked.
RECURSIVE CloseNegatives(_, _, _)
CloseNegatives(m, positions, rejects) ==
    IF positions = <<>> THEN m
    ELSE LET pos == Head(positions)
             ok == CloseOk(m.br, pos.ticket, rejects)
             m1 == CloseTicket(m, pos.ticket, rejects)
             m2 == IF ok
                   THEN [m1 EXCEPT !.tr = UntrackPosition(@, pos.ticket),
                                   !.stats = Bump(@, "trades_closed")]
                   ELSE m1
         IN IF pos.profit < 0 THEN CloseNegatives(m2, Tail(positions), rejects)
            ELSE CloseNegatives(m, Tail(positions), rejects)

\* The loop goes from the position it has handled to the next one of the
\* snapshot, within the same call: the local names stay as they are.
Continue(position) ==
    IF queue = <<>>
    THEN /\ pc' = "orphans"
         /\ cur' = [NoCur EXCEPT !.symbol = position.symbol]
         /\ queue' = queue
    ELSE /\ pc' = "nonrec"
         /\ cur' = [CurOf(Head(queue)) EXCEPT !.imports_bound = position.imports_bound]
         /\ queue' = Tail(queue)

\* "continue": the loop body ends here and the next position of the pass is taken
NextPosition == Continue(cur)

\* The head of _manage_positions(symbol): crash recovery on the first pass,
\* orphan detection, the total-loss cascade check (which reaches an undefined
\* name, so the pass ends in the caller's exception handler), the window
\* closures, and the snapshot of the symbol's positions the loop walks.
ManageBegin(symbol, profits, window_close, rejects) ==
    /\ pc = "idle"
    /\ LoopAllows("manage", symbol)
    /\ LET m == Machine
           positions == GetPositions(m.br, profits, symbol)
           tr1 == IF ~recovery_stacks_reconstructed THEN CrashRecovery(m.tr, m.br) ELSE m.tr
           tr2 == IF DOMAIN m.br # {} THEN ReconstructRecoveryStacks(tr1, m.br) ELSE tr1
           total_unrealized == SumOver(DOMAIN m.br, profits)
           m1 == [m EXCEPT !.tr = tr2]
           m2 == IF window_close THEN CloseNegatives(m1, positions, rejects) ELSE m1
       IN IF DOMAIN m.br # {} /\ total_unrealized <= -CascadeLossThreshold
          THEN /\ Commit([m1 EXCEPT !.log = <<Event("cascade_protection", NoTicket, TRUE),
                                              Event("NameError", NoTicket, FALSE)>>])
               /\ loop_at' = LoopContinue(loop_at)
               /\ UNCHANGED <<pc, cur, queue>>
          ELSE /\ Commit(m2)
               /\ loop_at' = loop_at
               /\ IF positions = <<>>
                  THEN /\ pc' = "orphans"
                       /\ cur' = [NoCur EXCEPT !.symbol = symbol]
                       /\ queue' = <<>>
                  ELSE /\ pc' = "nonrec"
                       /\ cur' = CurOf(Head(positions))
                       /\ queue' = Tail(positions)
    /\ recovery_stacks_reconstructed' = TRUE
    /\ UNCHANGED <<market_data_cache, last_data_refresh,
                   smc, short_bot, temp_file, loop_iteration, running, now>>

\* ---------------------------------------------- the loop body, per position
PipLevels == {0, 10, 20}

\* The per-tick tracking test: only an untracked original trade is tracked.
ShouldTrack(tr, ticket, comment) ==
    ticket \notin DOMAIN tr /\ ~IsRecoveryOrder(comment)

\* A gate that forgets the recovery test.
LadderGateNoRecoveryTest(tr, position) ==
    position.profit > 0 /\ ~IsRecoveryOrder(position.comment)

\* The PC1/PC2 gate: a profitable original position without active recovery.
LadderGate(tr, position) ==
    /\ position.profit > 0
    /\ ~IsRecoveryOrder(position.comment)
    /\ ~(position.ticket \in DOMAIN tr /\ tr[position.ticket].recovery_active)

\* The trailing gate: tracked, profitable, trailing active, no active recovery.
TrailingGate(tr, position) ==
    /\ position.ticket \in DOMAIN tr
    /\ ~tr[position.ticket].recovery_active
    /\ position.profit > 0
    /\ tr[position.ticket].trailing_stop_active

\* round(volume * 0.25, 2), in hundredths of a lot, for volumes up to 5
RoundQuarter(volume) == (volume + 2) \div 4

\* mt5.close_partial_position: reduces the volume of an open position
ClosePartialPosition(m, t, close_volume, partial_ok) ==
    IF partial_ok /\ t \in DOMAIN m.br
    THEN [m EXCEPT !.br[t].volume = @ - close_volume,
                   !.log = Append(@, Event("close_partial", t, TRUE))]
    ELSE [m EXCEPT !.log = Append(@, Event("close_partial", t, FALSE))]

\* activate_trailing_stop: the stop starts behind the current price
ActivateTrailingStop(tr, t) ==
    [tr EXCEPT ![t].trailing_stop_active = TRUE, ![t].trailing_stop_price = 1]

\* update_trailing_stop: the stop follows the price, never backwards
UpdateTrailingStop(tr, t, moved) ==
    IF moved THEN [tr EXCEPT ![t].trailing_stop_price = Max(@, 2)] ELSE tr

\* The PC1 and PC2 branches of the ladder.
PartialCloseLadder(m, position, profit_pips, partial_ok, t) ==
    LET ticket == position.ticket
        m0 == [m EXCEPT !.tr = TrackPosition(@, ticket, position.symbol,
                                             position.volume, FALSE)]
        tracked_pos == m0.tr[ticket]
        pc1_volume == RoundQuarter(position.volume)
        pc2_volume == RoundQuarter(tracked_pos.initial_volume)
    IN IF ~tracked_pos.partial_1_closed /\ profit_pips >= Pc1Pips
       THEN IF pc1_volume > 0 /\ pc1_volume < position.volume
            THEN LET m1 == ClosePartialPosition(m0, ticket, pc1_volume, partial_ok)
                 IN IF partial_ok /\ ticket \in DOMAIN m0.br
                    THEN [m1 EXCEPT !.tr[ticket].partial_1_closed = TRUE]
                    ELSE m1
            ELSE m0
       ELSE IF tracked_pos.partial_1_closed /\ ~tracked_pos.partial_2_closed
               /\ profit_pips >= Pc2Pips
       THEN IF pc2_volume > 0 /\ pc2_volume < position.volume
            THEN LET m1 == ClosePartialPosition(m0, ticket, pc2_volume, partial_ok)
                     m2 == [m1 EXCEPT !.tr[ticket].partial_2_closed = TRUE]
                 IN IF partial_ok /\ ticket \in DOMAIN m0.br
                    THEN IF ~tracked_pos.trailing_stop_active
                         THEN [m2 EXCEPT !.tr = [ActivateTrailingStop(@, ticket)
                                                   EXCEPT ![ticket].pc2_trigger_time = t]]
                         ELSE m2
                    ELSE m1
            ELSE m0
       ELSE m0

\* A single close of the position under management; untracked when it closes.
CloseAndUntrack(m, t, rejects) ==
    LET m1 == CloseTicket(m, t, rejects)
    IN IF CloseOk(m.br, t, rejects)
       THEN [m1 EXCEPT !.tr = UntrackPosition(@, t), !.stats = Bump(@, "trades_closed")]
       ELSE m1

\* check_trailing_stop has answered that the stop is hit (the "[TRAIL]" line)
TrailingHit(m, t) == [m EXCEPT !.log = Append(@, Event("trailing_hit", t, TRUE))]

\* The trailing-stop branch: [m, done]; done means the loop body ends here.
TrailingStop(m, position, moved, hit, rejects, t) ==
    LET ticket == position.ticket
        pc2_time == m.tr[ticket].pc2_trigger_time
    IN IF pc2_time # None /\ t - pc2_time >= Pc2LimitTicks
       THEN [m |-> CloseAndUntrack(m, ticket, rejects), done |-> TRUE]
       ELSE LET m1 == [m EXCEPT !.tr = UpdateTrailingStop(@, ticket, moved)]
            IN IF hit THEN [m |-> CloseAndUntrack(TrailingHit(m1, ticket), ticket, rejects),
                            done |-> TRUE]
               ELSE [m |-> m1, done |-> FALSE]

\* The tracker after the per-tick tracking of the position under management
TrackIfNew(tr, position) ==
    IF ShouldTrack(tr, position.ticket, position.comment)
    THEN TrackPosition(tr, position.ticket, position.symbol, position.volume, FALSE)
    ELSE tr

\* The trailing-stop branch of a strategy built with an ml_logger whose next
\* call raises: [m, done, raised]. log_trailing_event follows the close of the
\* PC2 time limit, log_trailing_update a moved stop, and log_trailing_hit
\* precedes the close of a stop that was hit.
TrailingStopLogged(m, position, moved, hit, rejects, t, sink_fails) ==
    LET ticket == position.ticket
        pc2_time == m.tr[ticket].pc2_trigger_time
        plain == TrailingStop(m, position, moved, hit, rejects, t)
        m1 == [m EXCEPT !.tr = UpdateTrailingStop(@, ticket, moved)]
    IN IF ~sink_fails THEN [m |-> plain.m, done |-> plain.done, raised |-> FALSE]
       ELSE IF pc2_time # None /\ t - pc2_time >= Pc2LimitTicks
       THEN IF CloseOk(m.br, ticket, rejects)
            THEN [m |-> CloseTicket(m, ticket, rejects), done |-> TRUE, raised |-> TRUE]
            ELSE [m |-> plain.m, done |-> TRUE, raised |-> FALSE]
       ELSE IF m1.tr[ticket].trailing_stop_price # m.tr[ticket].trailing_stop_price
       THEN [m |-> m1, done |-> TRUE, raised |-> TRUE]
       ELSE IF hit THEN [m |-> TrailingHit(m1, ticket), done |-> TRUE, raised |-> TRUE]
       ELSE [m |-> m1, done |-> FALSE, raised |-> FALSE]

\* An exception that leaves _manage_positions: the handler of _trading_loop
\* prints it and the pass over the symbol ends where it stands.
RaiseToLoop(m, ticket) ==
    /\ Commit([m EXCEPT !.log = Append(@, Event("Exception", ticket, FALSE))])
    /\ pc' = "idle"
    /\ cur' = NoCur
    /\ queue' = <<>>
    /\ loop_at' = LoopContinue(loop_at)

\* Loop body, first part: tracking of an untracked original, the partial-close
\* ladder and the trailing stop; sink_fails is the outcome of the first
\* ml_logger call of the step. In the PC2 branch log_pc2_trigger follows the
\* activation of the trailing stop, and log_sl_to_breakeven follows a
\* modify_position that succeeded (sl_moved). The PC2 time check of the
\* trailing branch runs the from-imports of get_current_time and timedelta.
LadderLogged(profit_pips, partial_ok, sl_moved, moved, hit, rejects, sink_fails) ==
    /\ pc = "nonrec"
    /\ LET m == Machine
           ticket == cur.ticket
           m1 == [m EXCEPT !.tr = TrackIfNew(@, cur)]
           m2 == IF LadderGate(m1.tr, cur)
                 THEN PartialCloseLadder(m1, cur, profit_pips, partial_ok, now)
                 ELSE m1
           pc2_fired == /\ ticket \in DOMAIN m1.tr
                        /\ ~m1.tr[ticket].partial_2_closed
                        /\ m2.tr[ticket].partial_2_closed
           activated == /\ pc2_fired
                        /\ ~m1.tr[ticket].trailing_stop_active
                        /\ m2.tr[ticket].trailing_stop_active
           pc2_raised == sink_fails /\ pc2_fired /\ (activated \/ sl_moved)
           trailing == TrailingGate(m2.tr, cur) /\ ~pc2_raised
           r == IF trailing
                THEN TrailingStopLogged(m2, cur, moved, hit, rejects, now, sink_fails)
                ELSE [m |-> m2, done |-> pc2_raised, raised |-> pc2_raised]
           position == [cur EXCEPT !.imports_bound =
                           @ \/ (trailing /\ m2.tr[ticket].pc2_trigger_time # None)]
       IN IF r.raised THEN RaiseToLoop(r.m, ticket)
          ELSE /\ Commit(r.m)
               /\ loop_at' = loop_at
               /\ IF r.done THEN Continue(position)
                  ELSE /\ pc' = IF ticket \in DOMAIN r.m.tr THEN "triggers" ELSE "tail"
                       /\ cur' = position
                       /\ queue' = queue
    /\ UNCHANGED <<market_data_cache, last_data_refresh,
                   smc, short_bot, temp_file, loop_iteration, recovery_stacks_reconstructed,
                   running, now>>

\* The same step of a strategy built without an ml_logger (the default)
Ladder(profit_pips, partial_ok, moved, hit, rejects) ==
    LadderLogged(profit_pips, partial_ok, TRUE, moved, hit, rejects, FALSE)

\* check_all_recovery_triggers: the actions the recovery checks may emit for
\* a tracked position that is losing; a grid child spawns no further grid.
MaxDcaLevels == 2

MaxHedges == 1

TriggerKinds == {<<>>, <<"grid">>, <<"dca">>, <<"hedge">>, <<"dca", "hedge">>}

KindAllowed(pos, kind) ==
    CASE kind = "grid" -> ~pos.is_grid_child
      [] kind = "dca" -> Len(pos.dca_levels) < MaxDcaLevels
      [] kind = "hedge" -> Len(pos.hedge_tickets) < MaxHedges
      [] OTHER -> FALSE

ActionVolume(kind) == IF kind = "hedge" THEN 2 ELSE 1

RECURSIVE ActionsOf(_, _, _)
ActionsOf(kinds, symbol, original_ticket) ==
    IF kinds = <<>> THEN <<>>
    ELSE <<RecoveryAction(Head(kinds), symbol, ActionVolume(Head(kinds)),
                          original_ticket, NoTicket)>>
         \o ActionsOf(Tail(kinds), symbol, original_ticket)

CheckAllRecoveryTriggers(tr, position, kinds) ==
    IF position.profit < 0 /\ \A i \in DOMAIN kinds : KindAllowed(tr[position.ticket], kinds[i])
    THEN ActionsOf(kinds, position.symbol, position.ticket)
    ELSE <<>>

\* Loop body: the recovery triggers of a tracked position
CheckTriggers(kinds) ==
    /\ pc = "triggers"
    /\ LET recovery_actions == CheckAllRecoveryTriggers(tracked, cur, kinds)
       IN /\ cur' = [cur EXCEPT !.todo = recovery_actions]
          /\ pc' = IF recovery_actions = <<>> THEN "exits" ELSE "exec"
    /\ log' = <<>>
    /\ UNCHANGED <<loop_at, market_data_cache, last_data_refresh,
                   smc, short_bot, temp_file, loop_iteration, broker, nextTicket, tracked,
                   stop_outs, cascade_blocks, market_trending_block,
                   recovery_stacks_reconstructed, stats, running, file, now,
                   queue>>

\* log_hedge_dca is called when the new ticket has filled the pending level of
\* its hedge and the original and the hedge are both open.
HedgeDcaLogged(m, action, accepted) ==
    /\ action.action = "hedge_dca"
    /\ OrderTicket(m, accepted) # NoTicket
    /\ LinkHedgeDca(m.tr, action.original_ticket, action.hedge_ticket,
                    OrderTicket(m, accepted)) # m.tr
    /\ {action.original_ticket, action.hedge_ticket} \subseteq DOMAIN m.br

\* _execute_recovery_action up to a log_hedge_dca call that raises: the order
\* is placed and linked, the statistics are not reached.
ExecuteUpToLog(m, action, accepted) ==
    [PlaceOrder(m, action.symbol, action.comment, action.volume, accepted)
        EXCEPT !.tr = LinkHedgeDca(@, action.original_ticket, action.hedge_ticket,
                                   OrderTicket(m, accepted))]

\* One _execute_recovery_action call of the loop "for action in recovery_actions";
\* sink_fails is the outcome of the ml_logger call of the step, if it makes one.
ExecStepLogged(at, after, accepted, sink_fails) ==
    /\ pc = at
    /\ cur.todo # <<>>
    /\ IF sink_fails /\ HedgeDcaLogged(Machine, Head(cur.todo), accepted)
       THEN RaiseToLoop(ExecuteUpToLog(Machine, Head(cur.todo), accepted), cur.ticket)
       ELSE /\ Commit(ExecuteRecoveryAction(Machine, Head(cur.todo), accepted))
            /\ cur' = [cur EXCEPT !.todo = Tail(@)]
            /\ pc' = IF Tail(cur.todo) = <<>> THEN after ELSE at
            /\ queue' = queue
            /\ loop_at' = loop_at
    /\ UNCHANGED <<market_data_cache, last_data_refresh,
                   smc, short_bot, temp_file, loop_iteration, recovery_stacks_reconstructed,
                   running, now>>

\* The same call of a strategy built without an ml_logger (the default)
ExecStep(at, after, accepted) == ExecStepLogged(at, after, accepted, FALSE)

ExecRecovery(accepted) == ExecStep("exec", "exits", accepted)

ExecHedgeDca(accepted) == ExecStep("exec_hedge_dca", "partial", accepted)

\* -------------------------------------------- stack exits and the cascade
AdxLevels == {20, 35}

AdxTrend == 25

\* calculate_net_profit: the profit of the open tickets of a stack
NetProfit(tr, br, original_ticket, profits) ==
    SumOver(Range(GetAllStackTickets(tr, original_ticket)) \cap DOMAIN br, profits)

\* get_underwater_stacks: the tracked stacks whose net profit is negative
GetUnderwaterStacks(tr, br, profits) ==
    SetToSeq({t \in DOMAIN tr : NetProfit(tr, br, t, profits) < 0})

\* stop_out_tracker.record: the window keeps the recent stop-outs only
RecordStopOut(stops, symbol, t, adx) ==
    Append(InWindow(stops, t), StopOutEvent(symbol, t, adx))

RECURSIVE AdxSum(_)
AdxSum(stops) == IF stops = <<>> THEN 0 ELSE Head(stops).adx + AdxSum(Tail(stops))

\* stop_out_tracker.check_cascade; the average ADX is taken over the stop-outs
\* that were recorded with one
CheckCascade(stops, t) ==
    LET recent == InWindow(stops, t)
        known == SelectSeq(recent, LAMBDA e : e.adx # None)
    IN [detected |-> Len(recent) >= CascadeStops,
        stop_count |-> Len(recent),
        trend_confirmed |-> known # <<>> /\ AdxSum(known) >= AdxTrend * Len(known),
        symbols |-> {recent[i].symbol : i \in DOMAIN recent}]

RECURSIVE CloseStacks(_, _, _, _)
CloseStacks(m, tickets, skip, rejects) ==
    IF tickets = <<>> THEN m
    ELSE IF Head(tickets) = skip THEN CloseStacks(m, Tail(tickets), skip, rejects)
    ELSE CloseStacks(CloseRecoveryStack(m, Head(tickets), rejects), Tail(tickets),
                     skip, rejects)

\* for affected_symbol in cascade_info['symbols']: the block of each is set
RECURSIVE SetBlocks(_, _, _)
SetBlocks(blocks, symbols, block_until) ==
    IF symbols = <<>> THEN blocks
    ELSE SetBlocks(SetBlock(blocks, Head(symbols), block_until), Tail(symbols), block_until)

\* The cascade branch after a stack stop, [m, raised]: the stacks that are
\* underwater in the snapshot all_positions are closed; with the trend
\* confirmed the block time is computed from get_current_time and timedelta,
\* which are local names of _manage_positions: unless the call has run their
\* imports (imports_bound) the expression raises UnboundLocalError before any
\* block is set or saved. Nothing happens when no stack is underwater.
CascadeProtection(m, ticket, all_positions, profits, rejects, t, imports_bound) ==
    LET cascade_info == CheckCascade(m.stops, t)
        underwater_tickets == GetUnderwaterStacks(m.tr, all_positions, profits)
        found == [i \in DOMAIN underwater_tickets |->
                     Event("underwater", underwater_tickets[i], TRUE)]
        m1 == CloseStacks([m EXCEPT !.log = @ \o found], underwater_tickets, ticket, rejects)
        block_until == t + TrendBlockTicks
        blocks == SetBlocks(m1.blocks, SymbolOrder(cascade_info.symbols), block_until)
    IN IF cascade_info.detected /\ underwater_tickets # <<>>
       THEN IF cascade_info.trend_confirmed
            THEN IF imports_bound
                 THEN [m |-> [m1 EXCEPT !.blocks = blocks,
                                        !.file = SaveBlockingState(@, blocks, m1.trend, t)],
                       raised |-> FALSE]
                 ELSE [m |-> m1, raised |-> TRUE]
            ELSE [m |-> m1, raised |-> FALSE]
       ELSE [m |-> m, raised |-> FALSE]

\* The per-stack stop, [m, raised]: the stop-out is recorded with the ADX the
\* caller passes, the stack is closed, and the cascade check follows.
StackStop(m, position, profits, current_adx, rejects, t) ==
    LET m1 == [m EXCEPT !.stops = RecordStopOut(@, position.symbol, t, current_adx)]
        m2 == CloseRecoveryStack(m1, position.ticket, rejects)
    IN CascadeProtection(m2, position.ticket, m.br, profits, rejects, t,
                         position.imports_bound)

\* Some open ticket of the stack can carry a loss (or a profit)
StackOpen(tr, br, original_ticket) ==
    Range(GetAllStackTickets(tr, original_ticket)) \cap DOMAIN br # {}

\* Loop body, exit 0: check_stack_drawdown fires on a losing stack. `asked`
\* (here and in the later exits) are the exit checks the step has asked
\* before, with their answers.
StackDrawdown(asked, rejects) ==
    /\ pc = "exits"
    /\ StackOpen(tracked, broker, cur.ticket)
    /\ Commit(CloseRecoveryStack([Machine EXCEPT !.log = asked], cur.ticket, rejects))
    /\ NextPosition
    /\ UNCHANGED <<loop_at, market_data_cache, last_data_refresh,
                   smc, short_bot, temp_file, loop_iteration, recovery_stacks_reconstructed,
                   running, now>>

\* Loop body, exit 0.25: check_stack_stop_loss fires on a losing stack; the
\* ADX it gets is the last one of the cached H1 data, None without cached data
StackStopLoss(asked, profits, adx, rejects) ==
    /\ pc = "exits"
    /\ Len(InWindow(stop_outs, now)) < MaxStops
    /\ NetProfit(tracked, broker, cur.ticket, profits) < 0
    /\ LET current_adx == IF cur.symbol \in market_data_cache THEN adx ELSE None
           r == StackStop([Machine EXCEPT !.log = asked], cur, profits, current_adx, rejects, now)
       IN IF r.raised THEN RaiseToLoop(r.m, cur.ticket)
          ELSE /\ Commit(r.m)
               /\ loop_at' = loop_at
               /\ NextPosition
    /\ UNCHANGED <<market_data_cache, last_data_refresh,
                   smc, short_bot, temp_file, loop_iteration, recovery_stacks_reconstructed,
                   running, now>>

\* ------------------------------------------------------- hedge management
\* remove_closed_hedge: the closed hedge leaves the hedge list of its
\* original, and recovery_active is what the lists that remain make it (true
\* exactly when a DCA level or a hedge is left)
RemoveClosedHedge(tr, original_ticket, hedge_ticket) ==
    IF original_ticket \notin DOMAIN tr THEN tr
    ELSE LET hedges == SelectSeq(tr[original_ticket].hedge_tickets,
                                 LAMBDA h : h.ticket # hedge_ticket)
         IN [tr EXCEPT ![original_ticket].hedge_tickets = hedges,
                       ![original_ticket].recovery_active =
                           hedges # <<>> \/ tr[original_ticket].dca_levels # <<>>]

\* The hedges_to_close loop of the hedge drawdown branch
RECURSIVE CloseHedges(_, _, _, _)
CloseHedges(m, original_ticket, hedges, rejects) ==
    IF hedges = <<>> THEN m
    ELSE LET hedge_ticket == Head(hedges).ticket
             m1 == CloseTicket(m, hedge_ticket, rejects)
             m2 == IF CloseOk(m.br, hedge_ticket, rejects)
                   THEN [m1 EXCEPT !.tr = RemoveClosedHedge(@, original_ticket, hedge_ticket),
                                   !.stats = Bump(@, "trades_closed")]
                   ELSE m1
         IN CloseHedges(m2, original_ticket, Tail(hedges), rejects)

\* The hedge of a position that may receive a hedge DCA (0 if none): it is
\* open and has no filled DCA level yet.
HedgeForDca(tr, br, original_ticket) ==
    LET hs == {h \in HedgeTicketsOf(tr[original_ticket]) :
                 /\ h \in DOMAIN br
                 /\ FilledTickets(tr[original_ticket].hedge_tickets[
                        HedgeIndex(tr[original_ticket], h)].dca_levels) = <<>>}
    IN IF hs = {} THEN NoTicket ELSE CHOOSE h \in hs : \A g \in hs : h <= g

\* Loop body: hedge drawdown (close the hedges check_hedge_drawdown names in
\* hedges_to_close, then re-evaluate the market state of a symbol with cached
\* data) and the hedge DCA trigger
HedgeChecks(asked, drawdown, hedges_to_close, should_block, hedge_dca, rejects) ==
    /\ pc = "exits"
    /\ LET m == [Machine EXCEPT !.log = asked]
           ticket == cur.ticket
           has_hedge == tracked[ticket].hedge_tickets # <<>>
           named == SelectSeq(tracked[ticket].hedge_tickets,
                              LAMBDA h : h.ticket \in hedges_to_close)
           closed == CloseHedges(m, ticket, named, rejects)
           m1 == IF drawdown /\ has_hedge
                 THEN IF cur.symbol \in market_data_cache
                      THEN [closed EXCEPT !.trend = Put(@, cur.symbol, should_block)]
                      ELSE closed
                 ELSE m
           hedge_ticket == HedgeForDca(m1.tr, m1.br, ticket)
           fire == hedge_dca /\ hedge_ticket # NoTicket /\ nextTicket <= MaxTicket
       IN /\ Commit(m1)
          /\ cur' = [cur EXCEPT !.todo =
                        IF fire
                        THEN <<RecoveryAction("hedge_dca", cur.symbol, 1, ticket, hedge_ticket)>>
                        ELSE <<>>]
          /\ pc' = IF fire THEN "exec_hedge_dca" ELSE "partial"
    /\ UNCHANGED <<loop_at, market_data_cache, last_data_refresh,
                   smc, short_bot, temp_file, loop_iteration, recovery_stacks_reconstructed,
                   running, now, queue>>

\* ------------------------------------------------- hedge partial close
\* close_percent of a hedge partial close, in percent; 0 is no action
HedgeClosePercents == {0, 50, 100}

\* utils.helpers.round_volume_to_step, volumes in steps of 0.01 lot
RoundVolumeToStep(volume, close_percent) == (volume * close_percent) \div 100

\* positions_to_close: the hedge and its filled DCA levels, as far as open
PositionsToClose(br, hedge_info) ==
    SelectSeq(<<hedge_info.ticket>> \o FilledTickets(hedge_info.dca_levels),
              LAMBDA t : t \in DOMAIN br)

\* The partial branch: each ticket loses its rounded share of volume
RECURSIVE ClosePartialEach(_, _, _, _)
ClosePartialEach(m, tickets, close_percent, rejects) ==
    IF tickets = <<>> THEN m
    ELSE LET t == Head(tickets)
             close_volume == RoundVolumeToStep(m.br[t].volume, close_percent)
             m1 == ClosePartialPosition(m, t, close_volume, t \notin rejects)
             m2 == IF t \notin rejects
                   THEN [m1 EXCEPT !.stats = Bump(@, "trades_closed")]
                   ELSE m1
         IN ClosePartialEach(IF close_volume > 0 THEN m2 ELSE m, Tail(tickets),
                             close_percent, rejects)

\* The ml_logger call at the end of _execute_hedge_partial_close is made when
\* a close was counted (closed_count, counted together with trades_closed) and
\* the original is tracked and among the open positions
HedgePartialCloseLogged(m, after, original_ticket) ==
    /\ after.stats.trades_closed > m.stats.trades_closed
    /\ original_ticket \in DOMAIN after.tr
    /\ original_ticket \in DOMAIN after.br

\* A partial close of a hedge that clears the DCA list at 100% whatever the
\* closes achieved.
ExecuteHedgePartialCloseAndClear(m, original_ticket, hedge_ticket, close_percent, rejects, sink_fails) ==
    LET i == HedgeIndex(m.tr[original_ticket], hedge_ticket)
        hedge_info == m.tr[original_ticket].hedge_tickets[i]
        positions_to_close == PositionsToClose(m.br, hedge_info)
        m0 == [m EXCEPT !.log = Append(@, Event("hedge_partial_close", hedge_ticket,
                                                 close_percent = 100))]
        after == IF close_percent = 100
                 THEN [CloseEach(m0, positions_to_close, rejects)
                          EXCEPT !.tr[original_ticket].hedge_tickets[i].dca_levels = <<>>]
                 ELSE ClosePartialEach(m0, positions_to_close, close_percent, rejects)
    IN [m |-> after,
        raised |-> sink_fails /\ HedgePartialCloseLogged(m, after, original_ticket)]

\* _execute_hedge_partial_close, [m, raised]: the closes, the clearing of the
\* DCA list, and then log_hedge_partial_close, whose exception (sink_fails)
\* leaves the function with the closes done
ExecuteHedgePartialClose(m, original_ticket, hedge_ticket, close_percent, rejects, sink_fails) ==
    LET i == HedgeIndex(m.tr[original_ticket], hedge_ticket)
        hedge_info == m.tr[original_ticket].hedge_tickets[i]
        positions_to_close == PositionsToClose(m.br, hedge_info)
        closed_count == Cardinality({t \in Range(positions_to_close) : t \notin rejects})
        m0 == [m EXCEPT !.log = Append(@, Event("hedge_partial_close", hedge_ticket,
                                                 close_percent = 100))]
        after == IF close_percent = 100
                 THEN LET m1 == CloseEach(m0, positions_to_close, rejects)
                      IN IF closed_count > 0
                         THEN [m1 EXCEPT
                                 !.tr[original_ticket].hedge_tickets[i].dca_levels = <<>>]
                         ELSE m1
                 ELSE ClosePartialEach(m0, positions_to_close, close_percent, rejects)
    IN [m |-> after,
        raised |-> sink_fails /\ HedgePartialCloseLogged(m, after, original_ticket)]

\* Loop body: check_hedge_partial_close and the partial close of the hedge;
\* sink_fails is the outcome of the ml_logger call of the step, if it makes
\* one (a strategy built without an ml_logger makes none)
HedgePartialClose(close_percent, rejects, sink_fails) ==
    /\ pc = "partial"
    /\ LET hedges == tracked[cur.ticket].hedge_tickets
           r == IF close_percent # 0 /\ hedges # <<>>
                THEN ExecuteHedgePartialClose(Machine, cur.ticket, hedges[1].ticket,
                                              close_percent, rejects, sink_fails)
                ELSE [m |-> Machine, raised |-> FALSE]
       IN IF r.raised
          THEN RaiseToLoop(r.m, cur.ticket)
          ELSE /\ Commit(r.m)
               /\ pc' = "tail"
               /\ cur' = cur
               /\ queue' = queue
               /\ loop_at' = loop_at
    /\ UNCHANGED <<market_data_cache, last_data_refresh,
                   smc, short_bot, temp_file, loop_iteration, recovery_stacks_reconstructed,
                   running, now>>

\* ------------------------------------------- profit target, time, VWAP exit
\* The checks of exits 1 and 2, in the order the loop body asks them
ExitReasons == {"profit_target", "time_limit"}

\* Loop body, exits 1 and 2: check_profit_target has answered yes (reason
\* "profit_target"), or it has answered no and check_time_limit yes (reason
\* "time_limit"); the stack is closed with that reason.
StackExit(asked, reason, rejects) ==
    /\ pc = "tail"
    /\ cur.ticket \in DOMAIN tracked
    /\ Commit(CloseRecoveryStack([Machine EXCEPT !.log = Append(asked, Event(reason, cur.ticket, TRUE))],
                                 cur.ticket, rejects))
    /\ NextPosition
    /\ UNCHANGED <<loop_at, market_data_cache, last_data_refresh,
                   smc, short_bot, temp_file, loop_iteration, recovery_stacks_reconstructed,
                   running, now>>

\* The recovery test of the VWAP exit filter: has_dca or has_hedge, where
\* has_hedge is read from the key 'hedges', which a tracked position (whose
\* hedges are under 'hedge_tickets') does not have, so its default [] is used
VwapRecoveryActive(tracked_pos) ==
    LET has_dca == Len(tracked_pos.dca_levels) > 0
        has_hedge == Len(<<>>) > 0
    IN has_dca \/ has_hedge

\* The VWAP exit filter of a tracked position
AllowVwapExit(tracked_pos, profit_pips) ==
    /\ ~tracked_pos.partial_1_closed
    /\ profit_pips < VwapExitMaxPips
    /\ ~VwapRecoveryActive(tracked_pos)

\* Loop body, exit 3: the exit signal, asked for a symbol with cached data
\* only, and filtered; should_exit FALSE is no exit
VwapExit(asked, should_exit, profit_pips, rejects) ==
    /\ pc = "tail"
    /\ LET m == [Machine EXCEPT !.log = asked]
           ticket == cur.ticket
       IN IF cur.symbol \notin market_data_cache THEN Commit(m)
          ELSE IF should_exit /\ ticket \in DOMAIN tracked
          THEN IF AllowVwapExit(tracked[ticket], profit_pips)
               THEN Commit(CloseRecoveryStack(m, ticket, rejects))
               ELSE Commit(m)
          ELSE IF should_exit
          THEN Commit(IF CloseOk(m.br, ticket, rejects)
                      THEN [CloseTicket(m, ticket, rejects)
                              EXCEPT !.stats = Bump(@, "trades_closed")]
                      ELSE CloseTicket(m, ticket, rejects))
          ELSE Commit(m)
    /\ NextPosition
    /\ UNCHANGED <<loop_at, market_data_cache, last_data_refresh,
                   smc, short_bot, temp_file, loop_iteration, recovery_stacks_reconstructed,
                   running, now>>

\* --------------------------------------------- the order of the exit checks
\* Loop body, exits 0 and 0.25, as the code asks them: check_stack_drawdown
\* first, its yes closing the stack; check_stack_stop_loss only after its no,
\* its yes closing the stack and running the cascade check; and the hedge
\* checks only after both have answered no (here a pass in which the hedge
\* checks ask for nothing).
StackStops(drawdown, stop_loss, profits, adx, rejects) ==
    LET first == <<Event("check_stack_drawdown", cur.ticket, drawdown)>>
        second == Append(first, Event("check_stack_stop_loss", cur.ticket, stop_loss))
    IN  IF drawdown THEN StackDrawdown(first, rejects)
        ELSE IF stop_loss THEN StackStopLoss(second, profits, adx, rejects)
        ELSE HedgeChecks(second, FALSE, {}, FALSE, FALSE, {})

\* The same checks asked in the other order
LateExitsTimeFirst(account_info, profit_target, time_limit, should_exit, profit_pips, rejects) ==
    LET first == <<Event("check_time_limit", cur.ticket, time_limit)>>
        second == IF account_info
                  THEN Append(first, Event("check_profit_target", cur.ticket, profit_target))
                  ELSE first
    IN  IF cur.ticket \notin DOMAIN tracked
        THEN VwapExit(<<>>, should_exit, profit_pips, rejects)
        ELSE IF time_limit THEN StackExit(first, "time_limit", rejects)
        ELSE IF account_info /\ profit_target THEN StackExit(second, "profit_target", rejects)
        ELSE VwapExit(second, should_exit, profit_pips, rejects)

\* Loop body, exits 1 to 3, as the code asks them: for a tracked position
\* the profit target first, asked only when mt5.get_account_info() has
\* answered (account_info; with None the "and" of line 956 stops before the
\* call), its yes closing the stack; check_time_limit after its no or
\* without it, its yes closing the stack; and the VWAP exit signal after
\* both, or at once for a position that is not tracked, filtered by the
\* profit of the position in pips (profit_pips)
LateExits(account_info, profit_target, time_limit, should_exit, profit_pips, rejects) ==
    LET first == IF account_info
                 THEN <<Event("check_profit_target", cur.ticket, profit_target)>>
                 ELSE <<>>
        second == Append(first, Event("check_time_limit", cur.ticket, time_limit))
    IN  IF cur.ticket \notin DOMAIN tracked
        THEN VwapExit(<<>>, should_exit, profit_pips, rejects)
        ELSE IF account_info /\ profit_target THEN StackExit(first, "profit_target", rejects)
        ELSE IF time_limit THEN StackExit(second, "time_limit", rejects)
        ELSE VwapExit(second, should_exit, profit_pips, rejects)

\* ---------------------------------------------------------- orphan sweep
OrphanLossThreshold == 75

\* 'Hedge -' in comment: the tag of a hedge, not of a hedge DCA
IsHedgeComment(comment) == comment.words = {"Hedge"}

RECURSIVE CloseLosingHedges(_, _, _, _)
CloseLosingHedges(m, tickets, profits, rejects) ==
    IF tickets = <<>> THEN m
    ELSE LET t == Head(tickets)
             m1 == CloseTicket(m, t, rejects)
             m2 == IF CloseOk(m.br, t, rejects)
                   THEN [m1 EXCEPT !.stats = Bump(@, "trades_closed")]
                   ELSE m1
         IN IF IsHedgeComment(m.br[t].comment) /\ profits[t] < -OrphanLossThreshold
            THEN CloseLosingHedges(m2, Tail(tickets), profits, rejects)
            ELSE CloseLosingHedges(m, Tail(tickets), profits, rejects)

\* _check_orphaned_hedges, the last step of _manage_positions
CheckOrphanedHedges(profits, rejects) ==
    /\ pc = "orphans"
    /\ Commit(CloseLosingHedges(Machine, SetToSeq(DOMAIN broker), profits, rejects))
    /\ pc' = "idle"
    /\ loop_at' = LoopStep(loop_at, "signals")
    /\ cur' = NoCur
    /\ queue' = <<>>
    /\ UNCHANGED <<market_data_cache, last_data_refresh,
                   smc, short_bot, temp_file, loop_iteration, recovery_stacks_reconstructed,
                   running, now>>

\* DATA_REFRESH_INTERVAL (60 minutes) in clock ticks
RefreshTicks == 1

\* What mt5.get_historical_data hands back over the calls of one refresh:
\* nothing for H1, H1 but no D1 or W1, or every timeframe asked for
DataOutcomes == {"none", "h1_only", "all"}

\* _refresh_market_data: nothing while the cached data is fresh; a return when
\* the adapter has no H1 (or no D1 or W1) data; otherwise the cache entry, the
\* refresh time and the re-evaluated trend block, saved when it changes. The
\* caller goes on to _manage_positions in each case.
RefreshMarketData(symbol, data, should_block) ==
    /\ pc = "idle"
    /\ LoopAllows("refresh", symbol)
    /\ loop_at' = LoopStep(loop_at, "manage")
    /\ LET fresh == /\ symbol \in DOMAIN last_data_refresh
                    /\ now - last_data_refresh[symbol] < RefreshTicks
           was_blocked == symbol \in DOMAIN market_trending_block
                          /\ market_trending_block[symbol]
           trend == Put(market_trending_block, symbol, should_block)
       IN IF fresh
          THEN /\ log' = <<>>
               /\ UNCHANGED <<market_data_cache, last_data_refresh,
                              market_trending_block, file>>
          ELSE IF data # "all"
          THEN /\ log' = <<Event("get_historical_data", NoTicket, FALSE)>>
               /\ UNCHANGED <<market_data_cache, last_data_refresh,
                              market_trending_block, file>>
          ELSE /\ log' = <<Event("get_historical_data", NoTicket, TRUE)>>
               /\ market_data_cache' = market_data_cache \cup {symbol}
               /\ last_data_refresh' = Put(last_data_refresh, symbol, now)
               /\ market_trending_block' = trend
               /\ file' = IF was_blocked # should_block
                          THEN SaveBlockingState(file, cascade_blocks, trend, now)
                          ELSE file
    /\ UNCHANGED <<smc, short_bot, temp_file, loop_iteration, broker, nextTicket, tracked,
                   stop_outs, cascade_blocks, recovery_stacks_reconstructed,
                   stats, running, now, pc, cur, queue>>

\* MAX_OPEN_POSITIONS and MAX_POSITIONS_PER_SYMBOL of the configuration
MaxOpenPositions == 4

MaxPositionsPerSymbol == 2

\* self.trade_block_until after a pass of _manage_positions: the attribute is
\* assigned in one place, at the end of the total-loss branch, for 60 minutes;
\* a pass that does not get there leaves the strategy without it.
TradeBlockUntil(lg, t) ==
    IF \E i \in DOMAIN lg : lg[i].op = "trade_block" THEN t + 1 ELSE None

\* _can_open_new_position, [raised, allowed]: with trade_block_until ahead the
\* call reaches logger.debug, a name the module does not define, and raises
\* NameError before its return False; otherwise the two position limits decide.
CanOpenNewPosition(trade_block_until, br, symbol, t) ==
    IF trade_block_until # None /\ t < trade_block_until
    THEN [raised |-> TRUE, allowed |-> FALSE]
    ELSE IF Cardinality(DOMAIN br) >= MaxOpenPositions
    THEN [raised |-> FALSE, allowed |-> FALSE]
    ELSE IF Cardinality({p \in DOMAIN br : br[p].symbol = symbol}) >= MaxPositionsPerSymbol
    THEN [raised |-> FALSE, allowed |-> FALSE]
    ELSE [raised |-> FALSE, allowed |-> TRUE]

\* The signal check of the try block: _can_open_new_position, asked on a
\* strategy without the attribute trade_block_until (its one assignment stands
\* behind the NameError of the total-loss branch, see ManageBegin), then, when
\* it allows an entry, _check_for_signals, which returns at once for a symbol
\* without cached data and calls _execute_signal when a signal is found.
CheckForSignals(symbol, signal, volume, accepted) ==
    IF /\ CanOpenNewPosition(None, broker, symbol, now).allowed
       /\ symbol \in market_data_cache
       /\ signal
    THEN ExecuteSignal(symbol, volume, accepted)
    ELSE /\ pc = "idle"
         /\ loop_at # NoLoop
         /\ LoopAllows("signals", symbol)
         /\ loop_at' = LoopContinue(loop_at)
         /\ log' = <<>>
         /\ UNCHANGED <<market_data_cache, last_data_refresh, smc, short_bot, temp_file,
                        loop_iteration, broker, nextTicket, tracked, stop_outs,
                        cascade_blocks, market_trending_block,
                        recovery_stacks_reconstructed, stats, running, file,
                        now, pc, cur, queue>>

\* ------------------------------------------------ the main loop of start()
MaxIterations == 20

\* loop_iteration % 10 == 0
SaveEvery == 10

\* recovery_manager.save_state: the tracker goes into the positions part of the
\* state document; a failed write returns False and leaves the file
SaveState(f, tr, save_ok) ==
    IF ~save_ok \/ f.status = "malformed" THEN f
    ELSE [status |-> "ok",
          doc |-> [(IF f.status = "ok" THEN f.doc ELSE EmptyDoc) EXCEPT !.positions = tr]]

\* A stop that forgets the final save.
StopWithoutSave(f, tr, save_ok) ==
    [running |-> FALSE, file |-> f, log |-> <<>>]

\* stop(): clears the running flag and saves the final state
Stop(f, tr, save_ok) ==
    [running |-> FALSE, file |-> SaveState(f, tr, save_ok),
     log |-> <<Event("save_state", NoTicket, save_ok /\ f.status # "malformed")>>]

\* The clock counts hours and time.sleep(60) takes a minute: after the sleep
\* it shows the same hour or the next
SleepUntil(t, hour_passes) == IF hour_passes THEN t + 1 ELSE t

\* The pass of _trading_loop is over and the iteration is at its counter
AfterPass == [symbols |-> <<>>, step |-> "sleep"]

\* The iteration is in time.sleep(60)
Asleep == [symbols |-> <<>>, step |-> "asleep"]

\* The iteration of start() once _trading_loop is back: the counter and, on
\* every tenth iteration, the save of the tracker; the sleep comes next
LoopCount(save_ok) ==
    /\ pc = "idle"
    /\ loop_at = AfterPass
    /\ loop_iteration' = loop_iteration + 1
    /\ IF (loop_iteration + 1) % SaveEvery = 0
       THEN /\ file' = SaveState(file, tracked, save_ok)
            /\ log' = <<Event("save_state", NoTicket, save_ok /\ file.status # "malformed")>>
       ELSE /\ file' = file
            /\ log' = <<>>
    /\ loop_at' = Asleep
    /\ UNCHANGED <<market_data_cache, last_data_refresh, smc, short_bot, temp_file,
                   broker, nextTicket, tracked, stop_outs, cascade_blocks,
                   market_trending_block, recovery_stacks_reconstructed, stats,
                   running, now, pc, cur, queue>>

\* time.sleep(60) is over, and the while test that follows it: the next call
\* of _trading_loop or, with the running flag cleared by a stop() in the
\* meantime, the end of the loop and stop() in the finally clause
LoopSleep(final_ok, hour_passes) ==
    /\ pc = "idle"
    /\ loop_at = Asleep
    /\ now' = SleepUntil(now, hour_passes)
    /\ stop_outs' = InWindow(stop_outs, SleepUntil(now, hour_passes))
    /\ LET s == Stop(file, tracked, final_ok)
       IN IF running
          THEN /\ log' = <<>>
               /\ loop_at' = LoopStart
               /\ UNCHANGED <<running, file, pc>>
          ELSE /\ file' = s.file
               /\ log' = <<Event("not_running", NoTicket, TRUE)>> \o s.log
               /\ running' = s.running
               /\ pc' = "stopped"
               /\ loop_at' = loop_at
    /\ UNCHANGED <<market_data_cache, last_data_refresh, smc, short_bot, temp_file,
                   loop_iteration, broker, nextTicket, tracked, cascade_blocks,
                   market_trending_block, recovery_stacks_reconstructed, stats,
                   cur, queue>>

\* ---------------------------------------------------------- specification
\* The inputs of a step are drawn where the step reads them.
ProfitsOver(S) == [S -> ProfitLevels]

Only(cond, S, default) == IF cond THEN S ELSE {default}

LosersOf(symbol, profits) ==
    {t \in DOMAIN broker : broker[t].symbol = symbol /\ profits[t] < 0}

LadderOpen == LadderGate(TrackIfNew(tracked, cur), cur)

TrailOpen == LadderOpen /\ TrackIfNew(tracked, cur)[cur.ticket].partial_1_closed

HasHedge == cur.ticket \in DOMAIN tracked /\ tracked[cur.ticket].hedge_tickets # <<>>

StackOf(t) == Range(GetAllStackTickets(tracked, t)) \cap DOMAIN broker

HedgeProfits ==
    {p \in ProfitsOver(DOMAIN broker) :
        \A t \in DOMAIN broker : ~IsHedgeComment(broker[t].comment) => p[t] = 10}

Calm == [s \in Symbols |-> FALSE]

\* The symbol of the position under management has cached market data
Cached == cur.symbol \in market_data_cache

\* The first refresh of a symbol in a calm market with data at hand; the later
\* ones of such a market change nothing but the refresh time
FirstRefresh(symbol) ==
    /\ symbol \notin market_data_cache
    /\ RefreshMarketData(symbol, "all", FALSE)

\* An hour passes; the first iteration of the loop, which fetches the data,
\* is over by then
HourLater == market_data_cache # {} /\ Tick

\* The answers of check_hedge_drawdown: one or more hedges of the position
NamedHedges ==
    IF HasHedge THEN SUBSET HedgeTicketsOf(tracked[cur.ticket]) \ {{}} ELSE {{}}

\* The position lifecycle: MaxEntries entries on one symbol, a market that is
\* calm at startup, every recovery and exit path except the per-stack stop.
Next ==
    \/ StartLoadState
    \/ StartLoadBlocking
    \/ StartEvaluate(Calm)
    \/ HourLater
    \/ FirstRefresh("EURUSD")
    \/ \E volume \in EntryVolumes, accepted \in BOOLEAN :
          /\ stats.trades_opened < MaxEntries
          /\ CheckForSignals("EURUSD", TRUE, volume, accepted)
    \/ \E symbol \in Symbols, profits \in ProfitsOver(DOMAIN broker), window_close \in BOOLEAN :
          \E rejects \in Only(window_close, RejectSets(LosersOf(symbol, profits)), {}) :
             ManageBegin(symbol, profits, window_close, rejects)
    \/ \E profit_pips \in Only(LadderOpen, PipLevels, 0),
          partial_ok \in Only(LadderOpen, BOOLEAN, TRUE),
          moved \in Only(TrailOpen, BOOLEAN, FALSE),
          hit \in Only(TrailOpen, BOOLEAN, FALSE),
          rejects \in Only(TrailOpen, RejectSets({cur.ticket}), {}) :
          Ladder(profit_pips, partial_ok, moved, hit, rejects)
    \/ \E kinds \in Only(cur.profit < 0, TriggerKinds, <<>>) : CheckTriggers(kinds)
    \/ \E accepted \in BOOLEAN : ExecRecovery(accepted)
    \/ \E accepted \in BOOLEAN : ExecHedgeDca(accepted)
    \/ \E rejects \in RejectSets(StackOf(cur.ticket)) : StackDrawdown(<<>>, rejects)
    \/ \E drawdown \in Only(HasHedge, BOOLEAN, FALSE), hedge_dca \in Only(HasHedge, BOOLEAN, FALSE) :
          \E hedges_to_close \in Only(drawdown, NamedHedges, {}),
             should_block \in Only(drawdown /\ Cached, BOOLEAN, FALSE),
             rejects \in Only(drawdown, RejectSets(StackOf(cur.ticket)), {}) :
             HedgeChecks(<<>>, drawdown, hedges_to_close, should_block, hedge_dca, rejects)
    \/ \E close_percent \in Only(HasHedge, HedgeClosePercents, 0) :
          \E rejects \in Only(close_percent # 0, RejectSets(StackOf(cur.ticket)), {}) :
             HedgePartialClose(close_percent, rejects, FALSE)
    \/ \E reason \in ExitReasons, rejects \in RejectSets(StackOf(cur.ticket)) :
          StackExit(<<>>, reason, rejects)
    \/ \E should_exit \in Only(Cached, BOOLEAN, FALSE) :
          \E profit_pips \in Only(should_exit, {0, 10}, 0),
             rejects \in Only(should_exit, RejectSets({cur.ticket}), {}) :
             VwapExit(<<>>, should_exit, profit_pips, rejects)
    \/ \E profits \in HedgeProfits :
          \E rejects \in RejectSets({t \in DOMAIN broker : profits[t] < 0}) :
             CheckOrphanedHedges(profits, rejects)

Spec == Init /\ [][Next]_vars

\* The per-stack stop and the cascade: entries on both symbols, no recovery
\* orders, prices that never reach the partial-close levels.
NextCascade ==
    \/ StartLoadState
    \/ StartLoadBlocking
    \/ StartEvaluate(Calm)
    \/ HourLater
    \/ \E symbol \in Symbols : FirstRefresh(symbol)
    \/ \E symbol \in Symbols, volume \in EntryVolumes :
          CheckForSignals(symbol, TRUE, volume, TRUE)
    \/ \E symbol \in Symbols, profits \in ProfitsOver(DOMAIN broker) :
          ManageBegin(symbol, profits, FALSE, {})
    \/ Ladder(0, TRUE, FALSE, FALSE, {})
    \/ CheckTriggers(<<>>)
    \/ \E profits \in ProfitsOver(DOMAIN broker), adx \in Only(Cached, AdxLevels, None),
          rejects \in RejectSets(DOMAIN broker) :
          StackStopLoss(<<>>, profits, adx, rejects)
    \/ HedgeChecks(<<>>, FALSE, {}, FALSE, FALSE, {})
    \/ HedgePartialClose(0, {}, FALSE)
    \/ VwapExit(<<>>, FALSE, 0, {})
    \/ CheckOrphanedHedges([t \in DOMAIN broker |-> 10], {})

SpecCascade == Init /\ [][NextCascade]_vars

\* ----------------------------------------- persistence of blocking state
\* A save of the blocking state, a restart, and a load some hours later.
MaxGap == 3

BlockTimes == {None, 1, 25}

MapsOver(keys, values) == UNION {[S -> values] : S \in SUBSET keys}

\* The orders in which the elements of a set can be listed
Orderings(S) == {q \in [1..Cardinality(S) -> S] : Range(q) = S}

\* The dicts of cascade blocks over the keys, in every order of insertion
BlocksOver(keys, values) ==
    UNION {{[i \in DOMAIN q |-> BlockEntry(q[i], f[q[i]])] : q \in Orderings(DOMAIN f)} :
              f \in MapsOver(keys, values)}

\* A readable state document: with the three keys of the blocking state
\* (has_blocks) or with the positions alone
OkFile(positions, has_blocks, blocks, trend, t) ==
    [status |-> "ok",
     doc |-> [positions |-> positions,
              keys |-> IF has_blocks THEN BlockingKeys ELSE {},
              cascade_blocks |-> blocks,
              market_trending_block |-> trend,
              last_block_update |-> IF has_blocks THEN IsoFormat(t) ELSE JsonNull]]

MalformedFile == [status |-> "malformed", doc |-> EmptyDoc]

OnePosition == TrackPosition(EmptyMap, 1, "EURUSD", 4, FALSE)

PersistFiles ==
    {MissingFile, MalformedFile,
     OkFile(OnePosition, FALSE, NoBlocks, EmptyMap, 0),
     OkFile(OnePosition, TRUE, <<BlockEntry("GBPUSD", IsoFormat(1))>>,
            [s \in {"GBPUSD"} |-> TRUE], 0)}

InitPersist ==
    /\ broker = EmptyMap
    /\ nextTicket = 1
    /\ tracked = EmptyMap
    /\ stop_outs = <<>>
    /\ cascade_blocks \in BlocksOver(Symbols, BlockTimes)
    /\ market_trending_block \in MapsOver(Symbols, BOOLEAN)
    /\ recovery_stacks_reconstructed = FALSE
    /\ stats = NoStats
    /\ running = TRUE
    /\ loop_at = NoLoop
    /\ market_data_cache = {}
    /\ last_data_refresh = EmptyMap
    /\ temp_file = MissingFile
    /\ smc = NoSmc
    /\ short_bot = NoShortBot
    /\ loop_iteration = 0
    /\ file \in PersistFiles
    /\ now = 1
    /\ pc = "dirty"
    /\ cur = NoCur
    /\ queue = <<>>
    /\ log = <<>>

\* save_blocking_state of the running strategy
PersistSave ==
    /\ pc = "dirty"
    /\ file' = SaveBlockingState(file, cascade_blocks, market_trending_block, now)
    /\ pc' = "saved"
    /\ log' = <<Event("save_blocking_state", NoTicket, file.status # "malformed")>>
    /\ UNCHANGED <<loop_at, market_data_cache, last_data_refresh,
                   smc, short_bot, temp_file, loop_iteration, broker, nextTicket, tracked,
                   stop_outs, cascade_blocks, market_trending_block,
                   recovery_stacks_reconstructed, stats, running, now, cur,
                   queue>>

\* load_blocking_state of a newly constructed strategy, gap hours later
PersistLoad(gap) ==
    /\ pc = "saved"
    /\ now' = now + gap
    /\ LET l == LoadBlockingState(file, EmptyMap, EmptyMap, now + gap)
       IN /\ cascade_blocks' = l.blocks
          /\ market_trending_block' = l.trend
          /\ log' = <<Event("load_blocking_state", NoTicket, l.ok)>>
    /\ pc' = "loaded"
    /\ UNCHANGED <<loop_at, market_data_cache, last_data_refresh,
                   smc, short_bot, temp_file, loop_iteration, broker, nextTicket, tracked,
                   stop_outs, recovery_stacks_reconstructed, stats, running,
                   file, cur, queue>>

NextPersist ==
    \/ PersistSave
    \/ \E gap \in 0..MaxGap : PersistLoad(gap)

SpecPersist == InitPersist /\ [][NextPersist]_vars

\* -------------------------------------------------- the restart scenario
\* The recovery stack of the restart scenario: an original, two DCA orders, a
\* hedge, and a DCA order of the hedge.
FiveStack ==
    (1 :> BrokerPosition("EURUSD", EntryComment, 4))
    @@ (2 :> BrokerPosition("EURUSD", ActionComment("dca", 1), 4))
    @@ (3 :> BrokerPosition("EURUSD", ActionComment("dca", 1), 4))
    @@ (4 :> BrokerPosition("EURUSD", ActionComment("hedge", 1), 4))
    @@ (5 :> BrokerPosition("EURUSD", ActionComment("hedge_dca", 4), 4))

Snapshots(positions) == {[t \in S |-> positions[t]] : S \in SUBSET DOMAIN positions}

\* The trackers an earlier session can have left behind
EarlierTrackers(positions) ==
    {ReconcileWithMt5(EmptyMap, snapshot).tr : snapshot \in Snapshots(positions)}

\* ------------------------------------------------------------------ restart
\* A start of the strategy over a state file and open positions left behind
\* by an earlier session, up to the first pass of the position manager.
\* Documents that were edited by hand: an entry that is no timestamp (one
\* that raises, one that Python holds false) before or after a good one, and
\* a last_block_update that is absent or no timestamp
EditedBlocks ==
    {<<BlockEntry("GBPUSD", IsoFormat(1)), BlockEntry("EURUSD", Garbage)>>,
     <<BlockEntry("GBPUSD", Garbage), BlockEntry("EURUSD", IsoFormat(1))>>,
     <<BlockEntry("GBPUSD", JsonFalsy), BlockEntry("EURUSD", IsoFormat(1))>>}

EditedFiles ==
    {OkFile(OnePosition, TRUE, blocks, [s \in {"EURUSD"} |-> TRUE], 0) :
        blocks \in EditedBlocks}
    \cup {[OkFile(OnePosition, TRUE, <<BlockEntry("EURUSD", IsoFormat(1))>>,
                  [s \in {"EURUSD"} |-> TRUE], 0)
              EXCEPT !.doc.keys = BlockingKeys \ {"last_block_update"},
                     !.doc.last_block_update = JsonNull],
          [OkFile(OnePosition, TRUE, <<BlockEntry("EURUSD", IsoFormat(1))>>,
                  [s \in {"EURUSD"} |-> TRUE], 0)
              EXCEPT !.doc.last_block_update = Garbage],
          [OkFile(OnePosition, TRUE, <<BlockEntry("EURUSD", IsoFormat(1))>>,
                  [s \in {"EURUSD"} |-> TRUE], 0)
              EXCEPT !.doc.last_block_update = JsonFalsy]}

BootFiles ==
    {MissingFile, MalformedFile}
    \cup {OkFile(positions, FALSE, NoBlocks, EmptyMap, 0) :
             positions \in EarlierTrackers(FiveStack)}
    \cup {OkFile(OnePosition, TRUE, <<BlockEntry("EURUSD", block)>>,
                  [s \in {"EURUSD"} |-> TRUE], 0) :
             block \in {IsoFormat(1), JsonNull, JsonFalsy, Garbage}}
    \cup EditedFiles

InitBoot ==
    /\ broker \in Snapshots(FiveStack)
    /\ nextTicket = 6
    /\ tracked = EmptyMap
    /\ stop_outs = <<>>
    /\ cascade_blocks = NoBlocks
    /\ market_trending_block = EmptyMap
    /\ recovery_stacks_reconstructed = FALSE
    /\ stats = NoStats
    /\ running = FALSE
    /\ loop_at = NoLoop
    /\ market_data_cache = {}
    /\ last_data_refresh = EmptyMap
    /\ temp_file = MissingFile
    /\ smc = NoSmc
    /\ short_bot = NoShortBot
    /\ loop_iteration = 0
    /\ file \in BootFiles
    /\ now = 0
    /\ pc = "boot"
    /\ cur = NoCur
    /\ queue = <<>>
    /\ log = <<>>

NextBoot ==
    \/ StartLoadState
    \/ StartLoadBlocking
    \/ StartEvaluate(Calm)
    \/ \E symbol \in Symbols, profits \in ProfitsOver(DOMAIN broker) :
          ManageBegin(symbol, profits, FALSE, {})

SpecBoot == InitBoot /\ [][NextBoot]_vars

\* ------------------------------------------------------------------ claims
\* The close calls that directly precede entry i of a log
ClosesBefore(lg, i) == {j \in 1..(i - 1) : \A k \in j..(i - 1) : lg[k].op = "close"}

\* ======================================================================
\* The steps of save_blocking_state, with a second process loading the file
\* ======================================================================
PartialFile == [status |-> "malformed", doc |-> EmptyDoc]

InitSwap ==
    /\ broker = EmptyMap
    /\ nextTicket = 1
    /\ tracked = EmptyMap
    /\ stop_outs = <<>>
    /\ cascade_blocks \in BlocksOver(Symbols, BlockTimes)
    /\ market_trending_block \in MapsOver(Symbols, BOOLEAN)
    /\ recovery_stacks_reconstructed = FALSE
    /\ stats = NoStats
    /\ running = TRUE
    /\ loop_at = NoLoop
    /\ market_data_cache = {}
    /\ last_data_refresh = EmptyMap
    /\ temp_file = MissingFile
    /\ smc = NoSmc
    /\ short_bot = NoShortBot
    /\ loop_iteration = 0
    /\ file \in PersistFiles
    /\ now = 1
    /\ pc = "swap_begin"
    /\ cur = NoCur
    /\ queue = <<>>
    /\ log = <<>>

\* The existing document is read and the temp file is opened for writing; an
\* unreadable document ends the save in the except branch
SwapOpenTemp ==
    /\ pc = "swap_begin"
    /\ IF file.status = "malformed"
       THEN /\ pc' = "swap_done"
            /\ log' = <<Event("save_blocking_state", NoTicket, FALSE)>>
            /\ UNCHANGED <<smc, short_bot, temp_file>>
       ELSE /\ pc' = "swap_open"
            /\ temp_file' = PartialFile
            /\ UNCHANGED <<smc, short_bot>>
            /\ log' = <<>>
    /\ UNCHANGED <<loop_at, market_data_cache, last_data_refresh,
                   loop_iteration, broker, nextTicket, tracked, stop_outs,
                   cascade_blocks, market_trending_block,
                   recovery_stacks_reconstructed, stats, running, file, now,
                   cur, queue>>

\* json.dump: the temp file holds the whole new document
SwapDump ==
    /\ pc = "swap_open"
    /\ temp_file' = SaveBlockingState(file, cascade_blocks, market_trending_block, now)
    /\ UNCHANGED <<smc, short_bot>>
    /\ pc' = "swap_written"
    /\ log' = <<>>
    /\ UNCHANGED <<loop_at, market_data_cache, last_data_refresh,
                   loop_iteration, broker, nextTicket, tracked, stop_outs,
                   cascade_blocks, market_trending_block,
                   recovery_stacks_reconstructed, stats, running, file, now,
                   cur, queue>>

\* if state_path.exists(): state_path.unlink()
SwapUnlink ==
    /\ pc = "swap_written"
    /\ file' = MissingFile
    /\ pc' = "swap_unlinked"
    /\ log' = <<>>
    /\ UNCHANGED <<loop_at, market_data_cache, last_data_refresh,
                   smc, short_bot, temp_file, loop_iteration, broker, nextTicket, tracked,
                   stop_outs, cascade_blocks, market_trending_block,
                   recovery_stacks_reconstructed, stats, running, now, cur,
                   queue>>

\* temp_path.rename(state_path)
SwapRename ==
    /\ pc = "swap_unlinked"
    /\ file' = temp_file
    /\ temp_file' = MissingFile
    /\ UNCHANGED <<smc, short_bot>>
    /\ pc' = "swap_done"
    /\ log' = <<Event("save_blocking_state", NoTicket, TRUE)>>
    /\ UNCHANGED <<loop_at, market_data_cache, last_data_refresh,
                   loop_iteration, broker, nextTicket, tracked, stop_outs,
                   cascade_blocks, market_trending_block,
                   recovery_stacks_reconstructed, stats, running, now, cur,
                   queue>>

\* load_blocking_state of another process, at any point of the save: what it
\* returns is all this process sees of it
ConcurrentLoad ==
    /\ pc \in {"swap_begin", "swap_open", "swap_written", "swap_unlinked", "swap_done"}
    /\ LET l == LoadBlockingState(file, EmptyMap, EmptyMap, now)
       IN log' = <<Event("load_blocking_state", NoTicket, l.ok)>>
    /\ UNCHANGED <<loop_at, market_data_cache, last_data_refresh,
                   smc, short_bot, temp_file, loop_iteration, broker, nextTicket, tracked,
                   stop_outs, cascade_blocks, market_trending_block,
                   recovery_stacks_reconstructed, stats, running, file, now, pc,
                   cur, queue>>

NextSwap ==
    \/ SwapOpenTemp
    \/ SwapDump
    \/ SwapUnlink
    \/ SwapRename
    \/ ConcurrentLoad

SpecSwap == InitSwap /\ [][NextSwap]_vars

\* ======================================================================
\* The main loop of start() and the ways out of it
\* ======================================================================
LoopFiles ==
    {MissingFile, OkFile(OnePosition, TRUE, NoBlocks, [s \in {"GBPUSD"} |-> TRUE], 0)}

\* start() has come to its while loop: no position at the broker, none in
\* the tracker, and the state file of an earlier run or none
InitLoop ==
    /\ broker = EmptyMap
    /\ nextTicket = 1
    /\ tracked = EmptyMap
    /\ stop_outs = <<>>
    /\ cascade_blocks = NoBlocks
    /\ market_trending_block = EmptyMap
    /\ recovery_stacks_reconstructed = FALSE
    /\ stats = NoStats
    /\ running = TRUE
    /\ loop_at = LoopStart
    /\ market_data_cache = {}
    /\ last_data_refresh = EmptyMap
    /\ temp_file = MissingFile
    /\ smc = NoSmc
    /\ short_bot = NoShortBot
    /\ loop_iteration = 0
    /\ file \in LoopFiles
    /\ now = 0
    /\ pc = "idle"
    /\ cur = NoCur
    /\ queue = <<>>
    /\ log = <<>>

\* The places of a pass of _manage_positions
PassPhases ==
    {"idle", "nonrec", "triggers", "exec", "exits", "exec_hedge_dca", "partial",
     "tail", "orphans"}

\* stop() called on the running strategy from outside the loop, at any point
\* of an iteration, the sleep included: the loop goes on to its next while
\* test
StopRequest(save_ok) ==
    /\ pc \in PassPhases
    /\ running
    /\ LET s == Stop(file, tracked, save_ok)
       IN /\ running' = s.running
          /\ file' = s.file
          /\ log' = s.log
    /\ UNCHANGED <<loop_at, market_data_cache, last_data_refresh,
                   smc, short_bot, temp_file, loop_iteration, broker, nextTicket, tracked,
                   stop_outs, cascade_blocks, market_trending_block,
                   recovery_stacks_reconstructed, stats, now, pc, cur, queue>>

\* The exceptions that end the while loop from inside an iteration
LoopExits == {"KeyboardInterrupt", "Exception"}

\* The exception can come here: KeyboardInterrupt at any point of the
\* iteration, a pass of _manage_positions and the sleep included; any other
\* exception outside the try block that _trading_loop has for each symbol
\* (at the prints before the first symbol, at the counter, the periodic save
\* and the sleep)
CanExit(exit) ==
    /\ pc \in PassPhases
    /\ loop_at # NoLoop
    /\ exit = "Exception" => pc = "idle" /\ loop_at \in {LoopStart, AfterPass, Asleep}

\* KeyboardInterrupt or another exception ends the while loop, whether or not
\* the running flag is still set, with everything the iteration has done so
\* far left as it is; out of the lines between the counter and the sleep
\* (counted) it leaves the counter one up and the periodic save undone. The
\* handler prints and the finally clause calls stop().
LoopExit(exit, counted, save_ok) ==
    /\ CanExit(exit)
    /\ counted => loop_at = AfterPass
    /\ loop_iteration' = IF counted THEN loop_iteration + 1 ELSE loop_iteration
    /\ LET s == Stop(file, tracked, save_ok)
       IN /\ running' = s.running
          /\ file' = s.file
          /\ log' = <<Event(exit, NoTicket, TRUE)>> \o s.log
    /\ pc' = "stopped"
    /\ cur' = NoCur
    /\ queue' = <<>>
    /\ UNCHANGED <<loop_at, market_data_cache, last_data_refresh,
                   smc, short_bot, temp_file, broker, nextTicket, tracked, stop_outs,
                   cascade_blocks, market_trending_block,
                   recovery_stacks_reconstructed, stats, now>>

\* The loop of start() with one signal at most, quiet positions and a broker
\* that accepts the order; stop() and the exceptions come at any point.
NextLoop ==
    \/ \E symbol \in Symbols : RefreshMarketData(symbol, "all", FALSE)
    \/ \E symbol \in Symbols :
          ManageBegin(symbol, [t \in DOMAIN broker |-> 0], FALSE, {})
    \/ Ladder(0, TRUE, FALSE, FALSE, {})
    \/ CheckTriggers(<<>>)
    \/ HedgeChecks(<<>>, FALSE, {}, FALSE, FALSE, {})
    \/ HedgePartialClose(0, {}, FALSE)
    \/ VwapExit(<<>>, FALSE, 0, {})
    \/ CheckOrphanedHedges([t \in DOMAIN broker |-> 0], {})
    \/ \E symbol \in Symbols, signal \in Only(stats.trades_opened < MaxEntries, BOOLEAN, FALSE) :
          CheckForSignals(symbol, signal, 4, TRUE)
    \/ \E save_ok \in BOOLEAN :
          /\ loop_iteration < MaxIterations
          /\ LoopCount(save_ok)
    \/ \E final_ok \in BOOLEAN : LoopSleep(final_ok, FALSE)
    \/ \E save_ok \in BOOLEAN : StopRequest(save_ok)
    \/ \E exit \in LoopExits, counted \in BOOLEAN, save_ok \in BOOLEAN :
          /\ counted => loop_iteration < MaxIterations
          /\ LoopExit(exit, counted, save_ok)

SpecLoop == InitLoop /\ [][NextLoop]_vars

\* ======================================================================
\* A restart over the blocking state an earlier session persisted
\* ======================================================================
\* The block durations of the earlier session: TREND_BLOCK_MINUTES comes
\* from config.strategy_config, whose value the strategy does not fix; one
\* duration is shorter and one longer than the age at which
\* load_blocking_state holds the blocking state stale
BlockDurations == {TrendBlockTicks, StaleTicks + 2}

\* The documents an earlier session left: a cascade at hour 0 blocked some
\* symbols for TREND_BLOCK_MINUTES and saved the blocking state
RestartFiles ==
    {SaveBlockingState(MissingFile, blocks, trend, 0) :
        blocks \in BlocksOver(Symbols, {0 + d : d \in BlockDurations}),
        trend \in {EmptyMap, Calm}}

\* The hours at which the process starts again: while the state is fresh,
\* and when it is stale and the longer block is still running
RestartHours == 0..(StaleTicks + 1)

InitRestart ==
    /\ broker = EmptyMap
    /\ nextTicket = 1
    /\ tracked = EmptyMap
    /\ stop_outs = <<>>
    /\ cascade_blocks = NoBlocks
    /\ market_trending_block = EmptyMap
    /\ recovery_stacks_reconstructed = FALSE
    /\ stats = NoStats
    /\ running = FALSE
    /\ loop_at = NoLoop
    /\ market_data_cache = {}
    /\ last_data_refresh = EmptyMap
    /\ temp_file = MissingFile
    /\ smc = NoSmc
    /\ short_bot = NoShortBot
    /\ loop_iteration = 0
    /\ file \in RestartFiles
    /\ now \in RestartHours
    /\ pc = "boot"
    /\ cur = NoCur
    /\ queue = <<>>
    /\ log = <<>>

NextRestart ==
    \/ StartLoadState
    \/ StartLoadBlocking
    \/ \E should_block \in [Symbols -> BOOLEAN] : StartEvaluate(should_block)
    \/ Tick
    \/ \E symbol \in Symbols, should_block \in BOOLEAN :
          RefreshMarketData(symbol, "all", should_block)
    \/ \E symbol \in Symbols, volume \in EntryVolumes, accepted \in BOOLEAN :
          CheckForSignals(symbol, TRUE, volume, accepted)

SpecRestart == InitRestart /\ [][NextRestart]_vars

\* C1: close_stack issues a close call for every ticket of the stack, and the
\* original is untracked if and only if all of those close calls succeeded (a
\* failed close leaves the stack tracked for the next tick).
C1_UntrackedIffAllClosed ==
    [][\A i \in DOMAIN log' :
          log'[i].op = "untrack" =>
             /\ {log'[j].ticket : j \in ClosesBefore(log', i)} =
                   Range(GetAllStackTickets(tracked, log'[i].ticket))
             /\ \A j \in ClosesBefore(log', i) : log'[j].ok]_vars

\* C8: in close_stack a failed close does not stop the close attempts on the
\* remaining tickets, and the parent is untracked only after a close has been
\* attempted on every ticket of the stack.
C8_AllAttemptedBeforeUntrack ==
    [][\A i \in DOMAIN log' :
          log'[i].op = "untrack" =>
             {log'[j].ticket : j \in ClosesBefore(log', i)} =
                Range(GetAllStackTickets(tracked, log'[i].ticket))]_vars

\* A stack close whose first close call failed and which went on to the next
C8_Witness ==
    \E i \in DOMAIN log :
       /\ log[i].op = "untrack"
       /\ \E j, k \in ClosesBefore(log, i) : j < k /\ ~log[j].ok

\* C9: when the gateway rejects the order inside execute_action, the tracker
\* is not modified, the statistics are not incremented, and no further order
\* is attempted in that call.
C9_RejectedOrderChangesNothing ==
    [][(/\ pc \in {"exec", "exec_hedge_dca"}
        /\ log' # <<>>
        /\ log'[1].op = "order"
        /\ ~log'[1].ok)
       => (/\ tracked' = tracked
           /\ stats' = stats
           /\ broker' = broker
           /\ Len(log') = 1)]_vars

\* A recovery order has just been rejected for a tracked position
C9_Witness ==
    /\ log = <<Event("order", NoTicket, FALSE)>>
    /\ cur.ticket \in DOMAIN tracked
    /\ pc \in {"exits", "tail"}

\* The partial-close and trailing-stop fields of a tracked position
PcFields(p) ==
    <<p.partial_1_closed, p.partial_2_closed, p.pc2_trigger_time,
      p.trailing_stop_active, p.trailing_stop_price>>

\* C2: while a tracked position has recovery_active true, no step executes
\* PC1, PC2, a trailing-stop update or a trailing-stop close for it: its
\* partial-close and trailing fields stay as they are and no partial close is
\* sent for its ticket.
C2_NoProfitTakingDuringRecovery ==
    [][\A t \in DOMAIN tracked \cap DOMAIN tracked' :
          tracked[t].recovery_active =>
             /\ PcFields(tracked'[t]) = PcFields(tracked[t])
             /\ \A i \in DOMAIN log' :
                   ~(log'[i].op = "close_partial" /\ log'[i].ticket = t)]_vars

\* The ladder step has just passed over a profitable original in recovery
C2_Witness ==
    /\ pc = "triggers"
    /\ cur.ticket \in DOMAIN tracked
    /\ tracked[cur.ticket].recovery_active
    /\ cur.profit > 0
    /\ ~IsRecoveryOrder(cur.comment)

\* C4: the blocking state round-trips through persistence: for
\* every saved state, null block_until entries included, the load gives back
\* the cascade_blocks and market_trending_block that were saved, and the save
\* leaves the positions part of the file as it was.
C4_RoundTrip ==
    [][/\ (pc = "dirty" /\ pc' = "saved" /\ file.status = "ok")
          => file'.doc.positions = file.doc.positions
       /\ (pc = "saved" /\ pc' = "loaded")
          => /\ cascade_blocks' = cascade_blocks
             /\ market_trending_block' = market_trending_block]_vars

\* C7: when a stack stop-out brings the stop-out window to the cascade
\* condition with the trend confirmed, the same step closes every other
\* underwater tracked stack and sets cascade_blocks to a block_until in the
\* future for every affected symbol, whether or not any other underwater
\* stack exists.
C7_CascadeBlocksAffectedSymbols ==
    [][(/\ pc = "exits"
        /\ now' = now
        /\ stop_outs' # stop_outs
        /\ CheckCascade(stop_outs', now).detected
        /\ CheckCascade(stop_outs', now).trend_confirmed)
       => /\ \A i \in DOMAIN log' :
                log'[i].op = "underwater" =>
                   \E j \in DOMAIN log' :
                      j > i /\ log'[j] = Event("untrack", log'[i].ticket, TRUE)
          /\ \A s \in CheckCascade(stop_outs', now).symbols :
                /\ s \in BlockedSymbols(cascade_blocks')
                /\ BlockOf(cascade_blocks', s) > now]_vars

\* C10: load on a missing file gives the empty initial state and no error; on
\* a malformed or partial file the load fails loudly and the startup does not
\* proceed to a running strategy.
C10_UnreadableStateStopsStartup ==
    [][/\ (pc = "boot" /\ file.status = "missing")
          => /\ pc' = "boot_blocks"
             /\ tracked' = ReconcileWithMt5(EmptyMap, broker).tr
       /\ (pc = "boot" /\ file.status = "malformed") => ~running'
       /\ (/\ pc = "boot_eval"
           /\ file.status # "missing"
           /\ log = <<Event("load_blocking_state", NoTicket, FALSE)>>)
          => ~running']_vars

\* The single entry of the run has had a hedge attached: the strategy counts
\* a hedge when the broker has taken the order it sent for the position
HedgeWasAttached == stats.trades_opened = 1 /\ stats.hedges_activated > 0

\* C14: entering recovery disables the partial-close and trailing-stop path of
\* a position for the rest of its lifetime. While it stays tracked, once
\* recovery_active is true it is true after every step, also a step that
\* removes the last hedge, and no step changes the position's partial-close
\* or trailing fields or sends a partial close for its ticket; and once the
\* entry of the run has had a hedge attached, no later step sends a partial
\* close or a trailing-stop close for the entry as long as it is open, or
\* changes its partial-close and trailing fields.
C14_RecoveryDisablesLadderForGood ==
    [][/\ \A t \in DOMAIN tracked \cap DOMAIN tracked' :
             tracked[t].recovery_active =>
                /\ tracked'[t].recovery_active
                /\ \A profit \in ProfitLevels :
                      /\ ~LadderGate(tracked', [ticket |-> t, profit |-> profit,
                                                comment |-> EntryComment])
                      /\ ~TrailingGate(tracked', [ticket |-> t, profit |-> profit])
                /\ PcFields(tracked'[t]) = PcFields(tracked[t])
                /\ \A i \in DOMAIN log' :
                      ~(log'[i].op = "close_partial" /\ log'[i].ticket = t)
       /\ HedgeWasAttached =>
             \A t \in DOMAIN broker :
                ~IsRecoveryOrder(broker[t].comment) =>
                   /\ \A i \in DOMAIN log' :
                         ~(/\ log'[i].op \in {"close_partial", "trailing_hit"}
                           /\ log'[i].ticket = t)
                   /\ t \in DOMAIN tracked \cap DOMAIN tracked'
                         => PcFields(tracked'[t]) = PcFields(tracked[t])]_vars

\* C15 (as stated): for every tracked position recovery_active is true exactly
\* when it has a DCA level or a hedge, and the flag that gates PC1/PC2 and the
\* trailing stop agrees with the value the VWAP exit filter derives from the
\* lists.
C15_FlagMatchesLists ==
    \A t \in DOMAIN tracked :
       /\ tracked[t].recovery_active
             <=> (Len(tracked[t].dca_levels) + Len(tracked[t].hedge_tickets) > 0)
       /\ tracked[t].recovery_active <=> VwapRecoveryActive(tracked[t])

\* The volume the tracker records for a stack: the volume the original was
\* tracked with and the volume each recovery order was placed with
RecordedStackVolume(tr, original_ticket) ==
    LET pos == tr[original_ticket]
        hedge_dca == DOMAIN pos.hedge_tickets
    IN pos.initial_volume
       + Len(FilledTickets(pos.dca_levels)) * ActionVolume("dca")
       + Len(pos.hedge_tickets) * ActionVolume("hedge")
       + SumOver(hedge_dca,
                 [i \in hedge_dca |->
                    Len(FilledTickets(pos.hedge_tickets[i].dca_levels))
                       * ActionVolume("hedge_dca")])

\* The volume the broker reports for the tickets of a stack
BrokerStackVolume(tr, br, original_ticket) ==
    LET stack == Range(GetAllStackTickets(tr, original_ticket)) \cap DOMAIN br
    IN SumOver(stack, [t \in stack |-> br[t].volume])

\* C16 (as stated): for every stack, the volumes the tracker records for its
\* tickets add up to the volumes the broker reports for them, also after
\* partial closes; stated for the stacks whose tickets are all still open.
C16_TrackedVolumeIsBrokerVolume ==
    \A t \in DOMAIN tracked :
       Range(GetAllStackTickets(tracked, t)) \subseteq DOMAIN broker =>
          RecordedStackVolume(tracked, t) = BrokerStackVolume(tracked, broker, t)

\* C18 (as stated): a step removes a tracked position from the tracker only
\* when, after the step, every ticket of the stack it had (original, DCA,
\* hedges, hedge DCA) is closed at the broker.
C18_UntrackedOnlyWhenStackClosed ==
    [][\A t \in DOMAIN tracked \ DOMAIN tracked' :
          Range(GetAllStackTickets(tracked, t)) \cap DOMAIN broker' = {}]_vars

\* A step that executed a partial close of the first hedge of the current stack
HedgePartialCloseStep ==
    /\ pc = "partial"
    /\ log' # <<>>
    /\ log'[1].op = "hedge_partial_close"

\* The tickets of the hedge under partial close and those of them still open
HedgeUnderClose == tracked[cur.ticket].hedge_tickets[1]

HedgeTicketsUnderClose ==
    <<HedgeUnderClose.ticket>> \o FilledTickets(HedgeUnderClose.dca_levels)

\* The tickets of the events of one kind in a log, in order
RECURSIVE EventTickets(_, _)
EventTickets(lg, op) ==
    IF lg = <<>> THEN <<>>
    ELSE (IF Head(lg).op = op THEN <<Head(lg).ticket>> ELSE <<>>)
         \o EventTickets(Tail(lg), op)

AcceptedTickets(lg, op) ==
    {lg[i].ticket : i \in {j \in DOMAIN lg : lg[j].op = op /\ lg[j].ok}}

\* C19 (as stated): a partial close of a hedge at 100% sends a close for the
\* hedge and each of its DCA orders and clears the hedge's DCA list; below
\* 100% it takes that fraction off the volume of each of those tickets and
\* leaves the DCA list as it is. Stated for the tickets still open.
C19_HedgePartialClose ==
    [][HedgePartialCloseStep =>
         LET open == Range(PositionsToClose(broker, HedgeUnderClose))
             hedge_after == tracked'[cur.ticket].hedge_tickets[1]
         IN IF log'[1].ok
            THEN /\ open \subseteq Range(EventTickets(log', "close"))
                 /\ hedge_after.dca_levels = <<>>
            ELSE /\ \E close_percent \in HedgeClosePercents \ {0, 100} :
                       \A t \in open :
                          /\ t \in DOMAIN broker'
                          /\ broker'[t].volume * 100
                                = broker[t].volume * (100 - close_percent)
                 /\ hedge_after.dca_levels = HedgeUnderClose.dca_levels]_vars

\* C19 (amended): at 100% one close is sent for the hedge and for each of its
\* DCA orders that is still open, in that order, and the hedge's DCA list is
\* cleared exactly when at least one of these closes succeeded; below 100% a
\* partial close of the rounded share of its volume is sent for each of these
\* tickets whose share is not zero, an accepted one takes that share off the
\* broker volume, and the DCA list stays as it is. The hedge keeps its slot.
C19_HedgePartialCloseOfOpenTickets ==
    [][HedgePartialCloseStep =>
         LET to_close == PositionsToClose(broker, HedgeUnderClose)
             hedge_after == tracked'[cur.ticket].hedge_tickets[1]
         IN /\ hedge_after.ticket = HedgeUnderClose.ticket
            /\ IF log'[1].ok
               THEN /\ EventTickets(log', "close") = to_close
                    /\ EventTickets(log', "close_partial") = <<>>
                    /\ hedge_after.dca_levels =
                          IF AcceptedTickets(log', "close") # {}
                          THEN <<>> ELSE HedgeUnderClose.dca_levels
                    /\ DOMAIN broker' = DOMAIN broker \ AcceptedTickets(log', "close")
               ELSE \E close_percent \in HedgeClosePercents \ {0, 100} :
                       /\ EventTickets(log', "close") = <<>>
                       /\ EventTickets(log', "close_partial") =
                             SelectSeq(to_close, LAMBDA t :
                                RoundVolumeToStep(broker[t].volume, close_percent) > 0)
                       /\ DOMAIN broker' = DOMAIN broker
                       /\ \A t \in DOMAIN broker :
                             broker'[t].volume =
                                IF t \in AcceptedTickets(log', "close_partial")
                                THEN broker[t].volume
                                        - RoundVolumeToStep(broker[t].volume, close_percent)
                                ELSE broker[t].volume
                       /\ hedge_after.dca_levels = HedgeUnderClose.dca_levels]_vars

\* A 100% close of a hedge has just failed on every ticket it went for and
\* the hedge's DCA list is still there
C19_Witness ==
    /\ pc = "tail"
    /\ log # <<>>
    /\ log[1].op = "hedge_partial_close"
    /\ log[1].ok
    /\ cur.ticket \in DOMAIN tracked
    /\ EventTickets(log, "close") # <<>>
    /\ AcceptedTickets(log, "close") = {}
    /\ tracked[cur.ticket].hedge_tickets[1].dca_levels # <<>>

\* C20 (as stated): the orphan sweep sends a close only for a recovery-tagged
\* position whose declared parent is no longer open at the broker; a hedge
\* whose parent is still open and tracked is never closed by it.
C20_SweepClosesOrphansOnly ==
    [][pc = "orphans" =>
         \A i \in DOMAIN log' :
            (log'[i].op = "close" /\ log'[i].ticket \in DOMAIN broker) =>
               LET parent == broker[log'[i].ticket].comment.parent
               IN /\ IsRecoveryOrder(broker[log'[i].ticket].comment)
                  /\ parent \notin DOMAIN broker]_vars

\* C11 (as stated): while a save runs, a loader at any point finds either the
\* whole previous document or the whole new one: a readable state file stays
\* readable through every step, holding the document it held or the document
\* the save writes, and is never missing.
C11_LoaderSeesOldOrNewDocument ==
    [][file.status = "ok" =>
          /\ file'.status = "ok"
          /\ \/ file'.doc = file.doc
             \/ file' = SaveBlockingState(file, cascade_blocks, market_trending_block, now)]_vars

\* The last step called save_state, and a save that went through left the
\* tracker of the moment in the state file
SavedNow ==
    \E i \in DOMAIN log' :
       /\ log'[i].op = "save_state"
       /\ log'[i].ok => file'.status = "ok" /\ file'.doc.positions = tracked'

\* C12: the tracker is saved when the count of completed iterations reaches a
\* multiple of 10, and every step that leaves the main loop (the running flag
\* found cleared, KeyboardInterrupt, an unhandled exception) and every step
\* that clears the running flag saves it: no exit skips the final save.
C12_SavedPeriodicallyAndOnExit ==
    [][/\ (loop_iteration' # loop_iteration /\ loop_iteration' % SaveEvery = 0) => SavedNow
       /\ (pc # "stopped" /\ pc' = "stopped") => SavedNow
       /\ (running /\ ~running') => SavedNow]_vars

\* The loop has been left through an exception after its twentieth
\* iteration, with the final save written
C12_Witness ==
    /\ pc = "stopped"
    /\ ~running
    /\ loop_iteration = 2 * SaveEvery
    /\ \E i \in DOMAIN log : log[i].op = "Exception"
    /\ \E i \in DOMAIN log : log[i].op = "save_state" /\ log[i].ok
    /\ file.status = "ok"
    /\ file.doc.positions = tracked
    /\ tracked # EmptyMap

\* The cascade block of a symbol as the strategy holds it: in the state file
\* until load_blocking_state has run, in cascade_blocks afterwards
BlockUntil(s) ==
    IF pc \in {"boot", "boot_blocks"}
    THEN IF /\ file.status = "ok"
            /\ "cascade_blocks" \in file.doc.keys
            /\ s \in BlockedSymbols(file.doc.cascade_blocks)
            /\ IsIso(BlockOf(file.doc.cascade_blocks, s))
         THEN FromIsoFormat(BlockOf(file.doc.cascade_blocks, s))
         ELSE None
    ELSE IF s \in BlockedSymbols(cascade_blocks) THEN BlockOf(cascade_blocks, s) ELSE None

\* C13: a persisted cascade block whose block_until is still ahead survives
\* the restart: through the load of the blocking state, the startup
\* evaluation and every later step up to block_until the block stays as it
\* was, and no step opens a position on the blocked symbol.
C13_PersistedBlockSurvivesRestart ==
    [][\A s \in Symbols :
          (BlockUntil(s) # None /\ now' < BlockUntil(s)) =>
             /\ BlockUntil(s)' = BlockUntil(s)
             /\ \A t \in DOMAIN broker' \ DOMAIN broker : broker'[t].symbol # s]_vars

\* ------------------------------------------------ a failing telemetry sink
\* A strategy built with an ml_logger whose calls may raise: one entry on one
\* symbol, the ladder and the trailing stop, a hedge and its hedge DCA.
HedgeOrNothing == {<<>>, <<"hedge">>}

NextTelemetry ==
    \/ StartLoadState
    \/ StartLoadBlocking
    \/ StartEvaluate(Calm)
    \/ HourLater
    \/ FirstRefresh("EURUSD")
    \/ \E volume \in EntryVolumes :
          /\ stats.trades_opened < MaxEntries
          /\ CheckForSignals("EURUSD", TRUE, volume, TRUE)
    \/ \E profits \in ProfitsOver(DOMAIN broker) : ManageBegin("EURUSD", profits, FALSE, {})
    \/ \E profit_pips \in Only(LadderOpen, PipLevels, 0),
          sl_moved \in Only(LadderOpen, BOOLEAN, TRUE),
          moved \in Only(TrailOpen, BOOLEAN, FALSE),
          hit \in Only(TrailOpen, BOOLEAN, FALSE),
          rejects \in Only(TrailOpen, RejectSets({cur.ticket}), {}),
          sink_fails \in BOOLEAN :
          LadderLogged(profit_pips, TRUE, sl_moved, moved, hit, rejects, sink_fails)
    \/ \E kinds \in Only(cur.profit < 0, HedgeOrNothing, <<>>) : CheckTriggers(kinds)
    \/ \E accepted \in BOOLEAN : ExecRecovery(accepted)
    \/ \E accepted \in BOOLEAN, sink_fails \in BOOLEAN :
          ExecStepLogged("exec_hedge_dca", "partial", accepted, sink_fails)
    \/ \E hedge_dca \in Only(HasHedge, BOOLEAN, FALSE) :
          HedgeChecks(<<>>, FALSE, {}, FALSE, hedge_dca, {})
    \/ \E close_percent \in Only(HasHedge, HedgeClosePercents, 0) :
          \E sink_fails \in Only(close_percent # 0, BOOLEAN, FALSE) :
             HedgePartialClose(close_percent, {}, sink_fails)
    \/ VwapExit(<<>>, FALSE, 0, {})
    \/ CheckOrphanedHedges([t \in DOMAIN broker |-> 10], {})

SpecTelemetry == Init /\ [][NextTelemetry]_vars

\* The step has ended in the exception handler of _trading_loop
Raised == \E i \in DOMAIN log : log[i].op = "Exception"

\* C23: an exception of the telemetry sink does not keep the step from its
\* trading action: a trailing stop that is hit gets its close call in the same
\* step and the position is untracked when the close succeeds, and the ticket
\* of a hedge DCA order that was filled is linked to its hedge.
C23_SinkFailureBlocksNothing ==
    [][/\ \A t \in Range(EventTickets(log', "trailing_hit")) :
             /\ t \in Range(EventTickets(log', "close"))
             /\ t \in AcceptedTickets(log', "close") => t \notin DOMAIN tracked'
       /\ (pc = "exec_hedge_dca" /\ Head(cur.todo).original_ticket \in DOMAIN tracked)
             => \A t \in AcceptedTickets(log', "order") :
                   t \in Range(GetAllStackTickets(tracked', Head(cur.todo).original_ticket))]_vars

\* The trailing stop of a position was hit, the log_trailing_hit call raised,
\* and the position is still open and tracked after the step.
C23_HitNotClosed ==
    /\ Raised
    /\ \E t \in Range(EventTickets(log, "trailing_hit")) :
          t \in DOMAIN broker /\ t \in DOMAIN tracked

\* ------------------------------------------------- one tick, symbol by symbol
\* The running strategy at the top of _trading_loop: no position or one entry
\* of an earlier run at the broker, and the cascade blocks a load can leave
\* (none, a block that ends at hour 1, or a null block on a symbol).
TickPositions ==
    {EmptyMap} \cup {[t \in {1} |-> BrokerPosition(s, EntryComment, 4)] : s \in Symbols}

TickBlocks == {NoBlocks, <<BlockEntry("EURUSD", 1)>>, <<BlockEntry("EURUSD", None)>>}

InitTick ==
    /\ broker \in TickPositions
    /\ nextTicket = IF broker = EmptyMap THEN 1 ELSE 2
    /\ tracked = EmptyMap
    /\ stop_outs = <<>>
    /\ cascade_blocks \in TickBlocks
    /\ market_trending_block = EmptyMap
    /\ recovery_stacks_reconstructed = FALSE
    /\ stats = NoStats
    /\ running = TRUE
    /\ loop_at = LoopStart
    /\ market_data_cache = {}
    /\ last_data_refresh = EmptyMap
    /\ temp_file = MissingFile
    /\ smc = NoSmc
    /\ short_bot = NoShortBot
    /\ loop_iteration = 0
    /\ file = MissingFile
    /\ now = 0
    /\ pc = "idle"
    /\ cur = NoCur
    /\ queue = <<>>
    /\ log = <<>>

\* The iterations of the loop a run goes through
MaxSleeps == 1

NextTick ==
    \/ \E symbol \in Symbols, data \in DataOutcomes :
          \E should_block \in Only(data = "all", BOOLEAN, FALSE) :
             RefreshMarketData(symbol, data, should_block)
    \/ \E symbol \in Symbols, profits \in ProfitsOver(DOMAIN broker) :
          ManageBegin(symbol, profits, FALSE, {})
    \/ \E profit_pips \in Only(LadderOpen, PipLevels, 0) :
          Ladder(profit_pips, TRUE, FALSE, FALSE, {})
    \/ \E kinds \in Only(cur.profit < 0, HedgeOrNothing, <<>>) : CheckTriggers(kinds)
    \/ \E accepted \in BOOLEAN : ExecRecovery(accepted)
    \/ HedgeChecks(<<>>, FALSE, {}, FALSE, FALSE, {})
    \/ HedgePartialClose(0, {}, FALSE)
    \/ VwapExit(<<>>, FALSE, 0, {})
    \/ CheckOrphanedHedges([t \in DOMAIN broker |-> 10], {})
    \/ \E symbol \in Symbols, signal \in Only(stats.trades_opened < MaxEntries, BOOLEAN, FALSE) :
          \E accepted \in Only(signal, BOOLEAN, FALSE) :
             CheckForSignals(symbol, signal, 4, accepted)
    \/ /\ loop_iteration < MaxSleeps
       /\ LoopCount(TRUE)
    \/ \E hour_passes \in BOOLEAN :
          /\ hour_passes => now < MaxTime
          /\ LoopSleep(TRUE, hour_passes)

SpecTick == InitTick /\ [][NextTick]_vars

\* The last step ended in the exception handler of _trading_loop
Failed(lg) == \E i \in DOMAIN lg : lg[i].op \in {"Exception", "NameError", "TypeError"}

\* C24: an exception while one symbol is processed does not halt the loop:
\* the strategy keeps running, the loop goes on to the next symbol of the same
\* tick (or, after the last symbol, to the next tick), and whenever a symbol
\* or a tick is about to start nothing of an earlier pass is left mid-way.
C24_FailureMovesToNextSymbol ==
    [][/\ (Failed(log') /\ loop_at.symbols # <<>>)
             => /\ running'
                /\ pc' = "idle"
                /\ loop_at'.symbols = Tail(loop_at.symbols)
                /\ loop_at'.step = IF Tail(loop_at.symbols) = <<>> THEN "sleep" ELSE "refresh"
       /\ loop_at'.step \in {"refresh", "sleep"}
             => running' /\ pc' = "idle" /\ cur' = NoCur /\ queue' = <<>>]_vars

\* The pass over the first symbol of a tick has just failed with a position
\* open, and the loop stands at the refresh of the second symbol.
C24_Witness ==
    /\ Failed(log)
    /\ loop_at = [symbols |-> <<"GBPUSD">>, step |-> "refresh"]
    /\ DOMAIN broker # {}
    /\ running

\* ------------------------------------------------------- every stack exit
\* The stack of the position under management can carry a loss
StackCanLose == pc = "exits" /\ StackOpen(tracked, broker, cur.ticket)

\* The position at the late exits is a tracked one
LateTracked == pc = "tail" /\ cur.ticket \in DOMAIN tracked

\* The exits of a stack in one specification: stack drawdown, per-stack stop,
\* profit target, time limit and the VWAP exit, for one entry and its hedge,
\* every check with the answer it gives.
NextExits ==
    \/ StartLoadState
    \/ StartLoadBlocking
    \/ StartEvaluate(Calm)
    \/ HourLater
    \/ FirstRefresh("EURUSD")
    \/ \E accepted \in BOOLEAN :
          /\ stats.trades_opened < MaxEntries
          /\ CheckForSignals("EURUSD", TRUE, 4, accepted)
    \/ \E profits \in ProfitsOver(DOMAIN broker) : ManageBegin("EURUSD", profits, FALSE, {})
    \/ \E profit_pips \in Only(LadderOpen, PipLevels, 0),
          partial_ok \in Only(LadderOpen, BOOLEAN, TRUE) :
          Ladder(profit_pips, partial_ok, FALSE, FALSE, {})
    \/ \E kinds \in Only(cur.profit < 0, HedgeOrNothing, <<>>) : CheckTriggers(kinds)
    \/ \E accepted \in BOOLEAN : ExecRecovery(accepted)
    \/ \E drawdown \in Only(StackCanLose, BOOLEAN, FALSE),
          stop_loss \in Only(StackCanLose, BOOLEAN, FALSE) :
          \E profits \in Only(~drawdown /\ stop_loss, ProfitsOver(DOMAIN broker),
                               [t \in DOMAIN broker |-> 0]),
             adx \in Only(~drawdown /\ stop_loss /\ Cached, AdxLevels, None),
             rejects \in Only(drawdown \/ stop_loss, RejectSets(StackOf(cur.ticket)), {}) :
             StackStops(drawdown, stop_loss, profits, adx, rejects)
    \/ HedgePartialClose(0, {}, FALSE)
    \/ \E account_info \in Only(LateTracked, BOOLEAN, TRUE),
          should_exit \in Only(Cached, BOOLEAN, FALSE) :
          \E profit_target \in Only(LateTracked /\ account_info, BOOLEAN, FALSE),
             profit_pips \in Only(LateTracked /\ should_exit, {0, VwapExitMaxPips}, 0) :
             \E time_limit \in Only(LateTracked /\ ~profit_target, BOOLEAN, FALSE) :
                \E rejects \in Only(profit_target \/ time_limit \/ should_exit,
                                     RejectSets(StackOf(cur.ticket) \cup {cur.ticket}), {}) :
                   LateExits(account_info, profit_target, time_limit, should_exit,
                             profit_pips, rejects)
    \/ CheckOrphanedHedges([t \in DOMAIN broker |-> 10], {})

SpecExits == Init /\ [][NextExits]_vars

\* The step has closed the stack of the position under management
StackClosed == Event("untrack", cur.ticket, TRUE) \in Range(log')

\* The step has asked the exit check for the position under management
AskedNow(check) ==
    \E i \in DOMAIN log' : log'[i].op = check /\ log'[i].ticket = cur.ticket

\* The step has asked the exit check and got the answer
AnsweredNow(check, answer) == Event(check, cur.ticket, answer) \in Range(log')

\* The check is the first call in the log of the step
AskedFirst(check) == log' # <<>> /\ log'[1].op = check /\ log'[1].ticket = cur.ticket

\* The exit checks, in the order of their priority
ExitChecks ==
    <<"check_stack_drawdown", "check_stack_stop_loss", "check_profit_target",
      "check_time_limit">>

\* The pass over the position under management ends with the step
PassOverPositionEnds ==
    \/ /\ pc' \in {"nonrec", "orphans"}
       /\ cur'.ticket # cur.ticket
       /\ cur.ticket \notin {queue'[i].ticket : i \in DOMAIN queue'}
    \/ /\ Raised'
       /\ pc' = "idle"
       /\ cur' = NoCur
       /\ queue' = <<>>

\* C26: the exit checks of a position are asked in the order stack drawdown,
\* per-stack stop, profit target, time limit, each one only after every
\* earlier one has answered no: the per-stack stop is asked in the step in
\* which the stack drawdown has said no, the time limit in a step in which
\* the profit target has not said yes (it has been asked before and said no,
\* or, without account info, it has not been asked), and the step of profit
\* target and time limit is reached only through the steps in which both
\* stops have said no and closed nothing. A check that says yes closes the stack and ends the
\* pass over the position (the loop goes on to the next position, or an
\* exception ends the pass over the symbol), so that no later exit check is
\* asked for it in the tick and the profit target never closes a stack in a
\* pass in which a stop has fired.
C26_ExitsInOrderFirstWins ==
    [][/\ AskedNow("check_stack_stop_loss") => AnsweredNow("check_stack_drawdown", FALSE)
       /\ AskedNow("check_time_limit")
             => /\ ~AnsweredNow("check_profit_target", TRUE)
                /\ AskedNow("check_profit_target") => AskedFirst("check_profit_target")
       /\ \A i \in DOMAIN ExitChecks :
             AnsweredNow(ExitChecks[i], TRUE)
                => /\ StackClosed
                   /\ PassOverPositionEnds
                   /\ \A j \in DOMAIN ExitChecks : j > i => ~AskedNow(ExitChecks[j])
       /\ (pc \in {"exits", "tail"} /\ StackClosed) => PassOverPositionEnds
       /\ (AskedNow("check_stack_drawdown") \/ AskedNow("check_stack_stop_loss"))
             => pc = "exits"
       /\ (AskedNow("check_profit_target") \/ AskedNow("check_time_limit"))
             => pc = "tail" /\ cur.ticket \in DOMAIN tracked
       /\ (\E r \in ExitReasons : Event(r, cur.ticket, TRUE) \in Range(log'))
             => /\ pc = "tail" /\ cur.ticket \in DOMAIN tracked
                /\ ~AskedNow("check_stack_drawdown") /\ ~AskedNow("check_stack_stop_loss")
       /\ pc' = "tail" => pc \in {"partial", "nonrec"}
       /\ (pc' = "tail" /\ pc = "nonrec") => cur.ticket \notin DOMAIN tracked'
       /\ pc' \in {"partial", "exec_hedge_dca"}
             => /\ pc \in {"exits", "exec_hedge_dca"}
                /\ ~StackClosed
                /\ pc = "exits" => /\ AnsweredNow("check_stack_drawdown", FALSE)
                                   /\ AnsweredNow("check_stack_stop_loss", FALSE)]_vars

\* A stack with a hedge has been closed on its time limit, after the profit
\* target has said no: neither stop fired before in the pass.
C26_Witness ==
    /\ Len(log) >= 6
    /\ log[1].op = "check_profit_target" /\ ~log[1].ok
    /\ log[2].op = "check_time_limit" /\ log[2].ok
    /\ log[3].op = "time_limit"
    /\ log[1].ticket \notin DOMAIN tracked
    /\ pc \in {"nonrec", "orphans"}

\* The step has made a call of the partial-close ladder or the trailing stop
LadderActs ==
    /\ pc = "nonrec"
    /\ \E i \in DOMAIN log' : log'[i].op \in {"close_partial", "trailing_hit", "close"}

\* C27: within a tick the calls for a symbol come in the order market data
\* refresh (with the trend block re-evaluation), recovery triggers, stack
\* exits, and the partial-close ladder and trailing stop last: position
\* management starts only after the refresh call of the symbol, and once the
\* ladder has acted on a position no trigger or exit check of that position is
\* still to come in the pass.
C27_LadderAfterTriggersAndExits ==
    [][/\ (pc = "idle" /\ pc' \in {"nonrec", "orphans"})
             => loop_at.step = "manage" /\ cur'.symbol = Head(loop_at.symbols)
       /\ LadderActs => pc' \in {"nonrec", "orphans"}]_vars

\* The ladder has taken the first partial profit of a position and the
\* recovery triggers of the same position are next.
C27_TriggersAfterLadder ==
    /\ pc = "triggers"
    /\ log = <<Event("close_partial", cur.ticket, TRUE)>>
    /\ tracked[cur.ticket].partial_1_closed

\* The market data adapter has handed back nothing for the symbol of the step
NoMarketData == Event("get_historical_data", NoTicket, FALSE) \in Range(log')

\* C29: a symbol for which the market data adapter returns nothing is skipped
\* for the whole tick: the loop goes straight to the next symbol, without
\* position management, recovery action or signal check for it.
C29_NoDataSkipsSymbol ==
    [][NoMarketData => /\ loop_at'.symbols = Tail(loop_at.symbols)
                       /\ loop_at'.step \in {"refresh", "sleep"}]_vars

\* The adapter had no data for the symbol, and the pass over its positions is
\* under way in the same tick with a recovery order about to be sent.
C29_ManagedWithoutData ==
    /\ loop_at.step = "manage"
    /\ Head(loop_at.symbols) \notin market_data_cache
    /\ pc = "exec"
    /\ cur.symbol = Head(loop_at.symbols)

\* The symbol has a cascade block whose block_until is still ahead
FutureBlock(s) ==
    /\ s \in BlockedSymbols(cascade_blocks)
    /\ BlockOf(cascade_blocks, s) # None
    /\ now < BlockOf(cascade_blocks, s)

\* The step is the signal check of the symbol and _execute_signal was entered:
\* it turned the signal down, failed, sent an order or dropped a block
SignalStep(s) ==
    /\ pc = "idle"
    /\ loop_at.step = "signals"
    /\ Head(loop_at.symbols) = s
    /\ s \in market_data_cache
    /\ log' # <<>> \/ broker' # broker \/ cascade_blocks' # cascade_blocks

\* C30: while a symbol has a cascade block that is still ahead no entry order
\* (an order that is not a recovery order) is placed on it and the block
\* stays; a signal on a symbol whose block is not
\* ahead any more finds the block removed by _execute_signal, whatever value
\* the load left in cascade_blocks (a time or a null).
C30_BlockHoldsThenExpires ==
    [][\A s \in Symbols :
          /\ FutureBlock(s)
                => /\ \A t \in DOMAIN broker' \ DOMAIN broker :
                         broker'[t].symbol = s => IsRecoveryOrder(broker'[t].comment)
                   /\ s \in BlockedSymbols(cascade_blocks')
                   /\ BlockOf(cascade_blocks', s) = BlockOf(cascade_blocks, s)
          /\ (s \in BlockedSymbols(cascade_blocks) /\ ~FutureBlock(s) /\ SignalStep(s))
                => s \notin BlockedSymbols(cascade_blocks')]_vars

\* A signal on the symbol with the null block has just failed, the block is
\* still there, and the clock is at the end of the run.
C30_NullBlockStays ==
    /\ log = <<Event("TypeError", NoTicket, FALSE)>>
    /\ "EURUSD" \in BlockedSymbols(cascade_blocks)
    /\ BlockOf(cascade_blocks, "EURUSD") = None
    /\ now = MaxTime

\* ------------------------------------------------- the age of a position
\* MAX_POSITION_HOURS of the configuration, in hours
MaxPositionHours == 2

\* check_time_limit at hour t for a position tracked in hour open_time: it
\* has been tracked for more than hours_limit
CheckTimeLimit(open_time, t, hours_limit) == t - open_time > hours_limit

\* The run goes on until the position is two hours past the limit
AgeHours == MaxPositionHours + 2

\* The iterations of the run: some of the sleeps cross the hour
AgePasses == AgeHours + 2

\* The running strategy with one entry of an earlier run at the broker and
\* no block; the first pass of the loop tracks the entry, in hour 0.
InitAge ==
    /\ broker \in {[t \in {1} |-> BrokerPosition(s, EntryComment, 4)] : s \in Symbols}
    /\ nextTicket = 2
    /\ tracked = EmptyMap
    /\ stop_outs = <<>>
    /\ cascade_blocks = NoBlocks
    /\ market_trending_block = EmptyMap
    /\ recovery_stacks_reconstructed = FALSE
    /\ stats = NoStats
    /\ running = TRUE
    /\ loop_at = LoopStart
    /\ market_data_cache = {}
    /\ last_data_refresh = EmptyMap
    /\ temp_file = MissingFile
    /\ smc = NoSmc
    /\ short_bot = NoShortBot
    /\ loop_iteration = 0
    /\ file = MissingFile
    /\ now = 0
    /\ pc = "idle"
    /\ cur = NoCur
    /\ queue = <<>>
    /\ log = <<>>

NextAge ==
    \/ \E symbol \in Symbols : RefreshMarketData(symbol, "none", FALSE)
    \/ \E symbol \in Symbols, profits \in ProfitsOver(DOMAIN broker) :
          ManageBegin(symbol, profits, FALSE, {})
    \/ Ladder(0, TRUE, FALSE, FALSE, {})
    \/ \E kinds \in Only(cur.profit < 0, HedgeOrNothing, <<>>) : CheckTriggers(kinds)
    \/ \E accepted \in BOOLEAN : ExecRecovery(accepted)
    \/ HedgeChecks(<<>>, FALSE, {}, FALSE, FALSE, {})
    \/ HedgePartialClose(0, {}, FALSE)
    \/ \E profit_target \in Only(LateTracked /\ cur.profit > 0, BOOLEAN, FALSE) :
          LateExits(TRUE, profit_target, CheckTimeLimit(0, now, MaxPositionHours),
                    FALSE, 0, {})
    \/ CheckOrphanedHedges([t \in DOMAIN broker |-> 10], {})
    \/ \E symbol \in Symbols : CheckForSignals(symbol, FALSE, 4, FALSE)
    \/ \E save_ok \in BOOLEAN :
          /\ loop_iteration < AgePasses
          /\ LoopCount(save_ok)
    \/ \E hour_passes \in BOOLEAN :
          /\ hour_passes => now < AgeHours
          /\ LoopSleep(TRUE, hour_passes)

\* The ticks of a run of some hours with a broker that accepts every close
\* of a stack exit.
SpecAge == InitAge /\ [][NextAge]_vars

\* A pass of _trading_loop is over that started with the position of the run
\* older than the hour limit
PassOverAgedPosition ==
    /\ pc = "idle"
    /\ loop_at = AfterPass
    /\ CheckTimeLimit(0, now, MaxPositionHours)

\* C31: no stack is managed for ever: once a tracked position is older than
\* the hour limit, the next tick that manages it closes its stack (the broker
\* accepting the closes), so that at the end of a tick that started past the
\* limit no position is tracked any more and no original position is open.
C31_EveryStackEnds ==
    PassOverAgedPosition
       => /\ \A t \in Tickets : t \notin DOMAIN tracked
          /\ \A t \in DOMAIN broker : IsRecoveryOrder(broker[t].comment)

\* -------------------------------------------- the total-loss cascade check
\* The pass of _manage_positions found the summed profit at -100 or less
CascadeTriggered(lg) == \E i \in DOMAIN lg : lg[i].op = "cascade_protection"

\* C34: when the summed profit of all open positions is -100 or less at the
\* start of position management, every open position gets a close attempt in
\* that pass, every ticket closed is untracked, and _can_open_new_position is
\* false for every symbol from then on (for 60 minutes).
C34_CascadeClosesAll ==
    [][CascadeTriggered(log')
          => /\ \A t \in DOMAIN broker :
                   \E i \in DOMAIN log' : log'[i].op = "close" /\ log'[i].ticket = t
             /\ \A t \in DOMAIN broker \ DOMAIN broker' : t \notin DOMAIN tracked'
             /\ \A s \in Symbols :
                   ~CanOpenNewPosition(TradeBlockUntil(log', now), broker', s, now').allowed]_vars

\* The pass that found the loss has ended in the loop's exception handler
\* with every position still open and tracked as before.
C34_NothingClosed ==
    /\ CascadeTriggered(log)
    /\ Failed(log)
    /\ DOMAIN broker # {}
    /\ \A i \in DOMAIN log : log[i].op # "close"

\* ------------------------------------------------ the partial-close ladder
\* The flag f of ticket t is set in the tracker
FlagSet(tr, t, f) == t \in DOMAIN tr /\ tr[t][f]

\* The step sets the flag f of ticket t
Fires(t, f) == FlagSet(tracked', t, f) /\ ~FlagSet(tracked, t, f)

\* What is left of an entry after n partial closes of a quarter of its volume
VolumeAfter(n) == IF n = 0 THEN EntryVolumes ELSE {v - n * RoundQuarter(v) : v \in EntryVolumes}

\* C35: in every state PC2 done implies PC1 done and an active trailing stop
\* implies PC2 done; PC1 and PC2 fire at most once per position (PC1 finds the
\* volume the position was opened with, PC2 the volume PC1 left), never both in
\* one step, and only with a partial close the broker has confirmed.
C35_LadderOncePerPosition ==
    [][\A t \in Tickets :
          /\ FlagSet(tracked', t, "partial_2_closed") => FlagSet(tracked', t, "partial_1_closed")
          /\ FlagSet(tracked', t, "trailing_stop_active") => FlagSet(tracked', t, "partial_2_closed")
          /\ ~(Fires(t, "partial_1_closed") /\ Fires(t, "partial_2_closed"))
          /\ Fires(t, "partial_1_closed")
                => /\ Event("close_partial", t, TRUE) \in Range(log')
                   /\ t \in DOMAIN broker /\ broker[t].volume \in VolumeAfter(0)
          /\ Fires(t, "partial_2_closed")
                => /\ Event("close_partial", t, TRUE) \in Range(log')
                   /\ t \in DOMAIN broker /\ broker[t].volume \in VolumeAfter(1)]_vars

\* PC1 has fired for a position that was tracked anew after PC1 had already
\* taken its quarter: the tracker holds the reduced volume as the initial one.
C35_Pc1Twice ==
    \E t \in DOMAIN tracked :
       /\ tracked[t].partial_1_closed
       /\ tracked[t].initial_volume \in VolumeAfter(1)
       /\ Event("close_partial", t, TRUE) \in Range(log)

\* ------------------------------------------ blocks and recovery orders
\* New entries on the symbol are blocked: by the trend, or by a cascade block
\* that is still ahead
EntriesBlocked(s) ==
    \/ s \in DOMAIN market_trending_block /\ market_trending_block[s] = TRUE
    \/ FutureBlock(s)

\* The positions the step has opened on the symbol
OpenedOn(s) == {t \in DOMAIN broker' \ DOMAIN broker : broker'[t].symbol = s}

\* The step is an _execute_recovery_action call for a position of the symbol
RecoveryStep(s) == pc \in {"exec", "exec_hedge_dca"} /\ cur.todo # <<>> /\ cur.symbol = s

\* C36: while the trend block or a cascade block holds for a symbol no entry
\* order is placed on it, and the recovery orders of positions open on it are
\* still sent: each _execute_recovery_action call reaches place_order, and the
\* ticket the broker gives is open afterwards as a recovery order.
C36_BlocksSpareRecovery ==
    [][\A s \in Symbols :
          EntriesBlocked(s)
             => /\ \A t \in OpenedOn(s) : IsRecoveryOrder(broker'[t].comment)
                /\ RecoveryStep(s)
                      => /\ \E i \in DOMAIN log' : log'[i].op = "order"
                         /\ \A i \in DOMAIN log' :
                               (log'[i].op = "order" /\ log'[i].ok)
                                  => /\ log'[i].ticket \in OpenedOn(s)
                                     /\ broker'[log'[i].ticket].comment
                                           = Head(cur.todo).comment]_vars

\* A hedge has just been placed on EURUSD while entries on it are blocked
C36_Witness ==
    /\ pc = "exits"
    /\ EntriesBlocked("EURUSD")
    /\ \E i \in DOMAIN log :
          /\ log[i].op = "order" /\ log[i].ok
          /\ log[i].ticket \in DOMAIN broker
          /\ broker[log[i].ticket].symbol = "EURUSD"
          /\ IsHedgeComment(broker[log[i].ticket].comment)

\* ------------------------------------------ the SMC entry state machine
\* The variables of ConfluenceStrategy, which the other two programs of the
\* repository never touch
confluence_vars ==
    <<broker, nextTicket, tracked, stop_outs, cascade_blocks,
      market_trending_block, recovery_stacks_reconstructed, stats, running,
      file, temp_file, loop_iteration, now, pc, cur, queue, loop_at,
      market_data_cache, last_data_refresh, log>>

\* ConfluenceStrategy as constructed and not started
ConfluenceIdle ==
    /\ broker = EmptyMap
    /\ nextTicket = 1
    /\ tracked = EmptyMap
    /\ stop_outs = <<>>
    /\ cascade_blocks = NoBlocks
    /\ market_trending_block = EmptyMap
    /\ recovery_stacks_reconstructed = FALSE
    /\ stats = NoStats
    /\ running = FALSE
    /\ loop_at = NoLoop
    /\ market_data_cache = {}
    /\ last_data_refresh = EmptyMap
    /\ temp_file = MissingFile
    /\ loop_iteration = 0
    /\ file = MissingFile
    /\ now = 0
    /\ pc = "boot"
    /\ cur = NoCur
    /\ queue = <<>>
    /\ log = <<>>
\* MAX_M5_WAIT_BARS of _handle_waiting_for_m5
MaxM5WaitBars == 30

EntryStates == {"WAITING_FOR_ZONE", "IN_ZONE_WAITING_SWEEP",
                "WAITING_FOR_M5_CONFIRMATION", "ENTRY_TRIGGERED",
                "TRADE_ACTIVE", "COOLDOWN"}

NoZone == [direction |-> "none", bottom |-> 0, top |-> 0]

\* The confluence zones of the analysis: one price range, either direction
ZoneOf(direction) == [direction |-> direction, bottom |-> 1000, top |-> 2000]

\* Prices well below, just outside at either tolerance, inside, and above
SmcPrices == {980, 992, 997, 1500, 2003, 2008, 2020}

\* ConfluenceZone.contains_price, the tolerance in thousandths of the size
ContainsPrice(zone, price, tolerance) ==
    /\ zone.bottom * 1000 - (zone.top - zone.bottom) * tolerance <= price * 1000
    /\ price * 1000 <= zone.top * 1000 + (zone.top - zone.bottom) * tolerance

\* SMCEntryStrategy.__init__; the statistics counters (signals_generated,
\* trades_entered, trades_won, trades_lost), which only get_statistics reads,
\* are left out of the record
NewStrategy ==
    [entry_state |-> "WAITING_FOR_ZONE", current_zone |-> NoZone,
     m5_confirmation_bars |-> 0, pending_signal |-> FALSE, active_trades |-> <<>>]

\* What a handler gives back: the strategy and whether a signal is returned
Ticked(strategy, signal) == [strategy |-> strategy, signal |-> signal]

\* The first valid zone that holds the price, NoZone without one
ZoneAt(valid_zones, price) ==
    LET hits == {i \in DOMAIN valid_zones :
                    valid_zones[i].bottom <= price /\ price <= valid_zones[i].top}
    IN  IF hits = {} THEN NoZone
        ELSE valid_zones[CHOOSE i \in hits : \A j \in hits : i <= j]

\* SMCEntryStrategy._handle_waiting_for_zone
HandleWaitingForZone(st, analysis, current_price) ==
    LET zone == ZoneAt(analysis.valid_confluence_zones, current_price)
    IN  IF analysis.m15_cooldown_active
        THEN Ticked([st EXCEPT !.entry_state = "COOLDOWN"], FALSE)
        ELSE IF zone = NoZone THEN Ticked(st, FALSE)
        ELSE Ticked([st EXCEPT !.current_zone = zone,
                             !.m5_confirmation_bars = 0,
                             !.entry_state =
                                 IF analysis.liquidity_swept \/ analysis.recent_sweeps
                                 THEN "WAITING_FOR_M5_CONFIRMATION"
                                 ELSE "IN_ZONE_WAITING_SWEEP"], FALSE)

\* SMCEntryStrategy._handle_waiting_for_sweep
HandleWaitingForSweep(st, analysis, current_price) ==
    IF st.current_zone = NoZone
    THEN Ticked([st EXCEPT !.entry_state = "WAITING_FOR_ZONE"], FALSE)
    ELSE IF ~ContainsPrice(st.current_zone, current_price, 5)
    THEN Ticked([st EXCEPT !.entry_state = "WAITING_FOR_ZONE",
                         !.current_zone = NoZone], FALSE)
    ELSE IF analysis.recent_sweeps
    THEN Ticked([st EXCEPT !.entry_state = "WAITING_FOR_M5_CONFIRMATION",
                         !.m5_confirmation_bars = 0], FALSE)
    ELSE Ticked(st, FALSE)

\* The price has gone through the zone against its direction
BrokeThrough(zone, price) ==
    /\ ~ContainsPrice(zone, price, 10)
    /\ \/ zone.direction = "bullish" /\ price < zone.bottom
       \/ zone.direction # "bullish" /\ price > zone.top

\* SMCEntryStrategy._handle_waiting_for_m5; `confirmed` is the verdict of
\* _check_m5_confirmation and `valid` that of _generate_entry_signal
HandleWaitingForM5(st, analysis, current_price) ==
    LET counted == [st EXCEPT !.m5_confirmation_bars = @ + 1]
    IN  IF st.current_zone = NoZone
        THEN Ticked([st EXCEPT !.entry_state = "WAITING_FOR_ZONE"], FALSE)
        ELSE IF counted.m5_confirmation_bars > MaxM5WaitBars
        THEN Ticked([counted EXCEPT !.entry_state = "WAITING_FOR_ZONE",
                                  !.current_zone = NoZone], FALSE)
        ELSE IF BrokeThrough(st.current_zone, current_price)
        THEN Ticked([counted EXCEPT !.entry_state = "COOLDOWN",
                                  !.current_zone = NoZone], FALSE)
        ELSE IF analysis.confirmed /\ analysis.valid
        THEN Ticked([counted EXCEPT !.entry_state = "ENTRY_TRIGGERED",
                                  !.pending_signal = TRUE], TRUE)
        ELSE Ticked(counted, FALSE)

\* SMCEntryStrategy.process_tick
ProcessTick(st, analysis, current_price) ==
    IF st.entry_state = "COOLDOWN"
    THEN Ticked(IF analysis.m15_cooldown_active THEN st
              ELSE [st EXCEPT !.entry_state = "WAITING_FOR_ZONE"], FALSE)
    ELSE IF st.entry_state = "WAITING_FOR_ZONE"
    THEN HandleWaitingForZone(st, analysis, current_price)
    ELSE IF st.entry_state = "IN_ZONE_WAITING_SWEEP"
    THEN HandleWaitingForSweep(st, analysis, current_price)
    ELSE IF st.entry_state = "WAITING_FOR_M5_CONFIRMATION"
    THEN HandleWaitingForM5(st, analysis, current_price)
    ELSE Ticked(st, FALSE)

\* SMCEntryStrategy.reset_state
ResetState(st) ==
    [st EXCEPT !.entry_state = "WAITING_FOR_ZONE", !.current_zone = NoZone,
               !.m5_confirmation_bars = 0, !.pending_signal = FALSE]

\* SMCEntryStrategy.on_trade_opened; a trade is told by its symbol
OnTradeOpened(st, trade) ==
    [st EXCEPT !.active_trades = Append(@, trade), !.entry_state = "TRADE_ACTIVE",
               !.pending_signal = FALSE]

\* list.remove: the list without the first entry equal to `trade`
RECURSIVE RemoveTrade(_, _)
RemoveTrade(trades, trade) ==
    IF trades = <<>> THEN <<>>
    ELSE IF Head(trades) = trade THEN Tail(trades)
    ELSE <<Head(trades)>> \o RemoveTrade(Tail(trades), trade)

\* SMCEntryStrategy.on_trade_closed: the trade leaves the list only when it
\* is in it, and the state is reset either way
OnTradeClosed(st, trade) ==
    ResetState([st EXCEPT !.active_trades =
                    IF \E i \in DOMAIN @ : @[i] = trade THEN RemoveTrade(@, trade) ELSE @])

\* The symbol execute_signal trades: a zone dict has no 'timeframe' key and
\* the zone the signal carries has no order blocks
SignalSymbol == "EURUSD"

\* SMCTradeBot.execute_signal; `positions` is the length of what
\* mt5.get_positions answers and `result` the answer of mt5.open_position.
\* The strategy looked up is that of the traded symbol; a bot without it
\* ends in a KeyError that run catches, after the position was opened.
SmcExecuteSignal(bot, positions, result) ==
    IF bot.test_mode THEN bot
    ELSE IF positions >= MaxOpenPositions THEN bot
    ELSE IF ~result THEN bot
    ELSE IF SignalSymbol \in DOMAIN bot.strategies
    THEN [bot EXCEPT !.strategies[SignalSymbol] = OnTradeOpened(@, SignalSymbol)]
    ELSE bot

\* The tick of the strategy ends in a signal for some analysis and price
CanSignal(st) == st.entry_state = "WAITING_FOR_M5_CONFIRMATION"

\* The tick of the strategy reads the price
ReadsPrice(st) ==
    st.entry_state \in {"WAITING_FOR_ZONE", "IN_ZONE_WAITING_SWEEP",
                        "WAITING_FOR_M5_CONFIRMATION"}

\* The analyses a tick can see, cut to what the entry state reads
Analyses(st) ==
    [m15_cooldown_active : Only(st.entry_state \in {"COOLDOWN", "WAITING_FOR_ZONE"},
                                BOOLEAN, FALSE),
     valid_confluence_zones : Only(st.entry_state = "WAITING_FOR_ZONE",
                                   {<<>>, <<ZoneOf("bullish")>>, <<ZoneOf("bearish")>>},
                                   <<>>),
     liquidity_swept : Only(st.entry_state = "WAITING_FOR_ZONE", BOOLEAN, FALSE),
     recent_sweeps : Only(st.entry_state = "IN_ZONE_WAITING_SWEEP", BOOLEAN, FALSE),
     confirmed : Only(st.entry_state = "WAITING_FOR_M5_CONFIRMATION", BOOLEAN, FALSE),
     valid : Only(st.entry_state = "WAITING_FOR_M5_CONFIRMATION", {TRUE}, FALSE)]

\* One pass of the loop body of SMCTradeBot.run for a symbol: the market data
\* is fetched, the strategy ticks, and a signal is executed outside test mode
RunSymbol(symbol) ==
    /\ smc.at = "run"
    /\ symbol \in DOMAIN smc.strategies
    /\ LET st == smc.strategies[symbol]
       IN  \E data \in BOOLEAN,
              current_price \in Only(ReadsPrice(st), SmcPrices, 1500),
              positions \in Only(CanSignal(st) /\ ~smc.test_mode,
                                 {0, MaxOpenPositions}, 0),
              result \in Only(CanSignal(st) /\ ~smc.test_mode, BOOLEAN, TRUE) :
           \E analysis \in Analyses(st) :
              LET tick == ProcessTick(st, analysis, current_price)
                  after == [smc EXCEPT !.strategies[symbol] = tick.strategy]
              IN  smc' = IF ~data THEN smc
                         ELSE IF tick.signal /\ ~smc.test_mode
                         THEN SmcExecuteSignal(after, positions, result)
                         ELSE after
    /\ UNCHANGED <<confluence_vars, short_bot>>

\* SMCTradeBot.__init__ and initialize_strategies: one strategy per symbol
NewSmcBot(symbols, test_mode) ==
    [at |-> "run", test_mode |-> test_mode,
     strategies |-> [s \in symbols |-> NewStrategy]]

InitSmc ==
    /\ ConfluenceIdle
    /\ short_bot = NoShortBot
    /\ \E symbols \in (SUBSET Symbols) \ {{}}, test_mode \in BOOLEAN :
          smc = NewSmcBot(symbols, test_mode)

NextSmc == \E symbol \in Symbols : RunSymbol(symbol)

\* The entry state of the symbol's strategy, "none" for a symbol not analysed
EntryStateOf(symbol) ==
    IF smc.at = "run" /\ symbol \in DOMAIN smc.strategies
    THEN smc.strategies[symbol].entry_state ELSE "none"

\* The loop of run passes over every symbol again and again, and a tick that
\* can move the strategy of a symbol comes at some time: the data arrive, the
\* price leaves the zone or the sweep is seen, the cooldown ends
SpecSmc ==
    /\ InitSmc /\ [][NextSmc]_vars
    /\ \A symbol \in Symbols : WF_vars(RunSymbol(symbol))

\* C37: the entry state machine never gets stuck: whatever state the strategy
\* of a symbol is in, the ticks and the notifications of the bot bring it back
\* to WAITING_FOR_ZONE at some later time.
C37_BackToWaiting ==
    \A symbol \in Symbols :
       (EntryStateOf(symbol) \in EntryStates)
          ~> (EntryStateOf(symbol) = "WAITING_FOR_ZONE")

\* ------------------------------------------ the EURUSD short bot
\* take_profit_short, sl_multiplier and sl_short, in points
TakeProfitShort == 21

SlMultiplier == 13

SlShort == TakeProfitShort * SlMultiplier

\* hedge_trigger_pct, in hundredths
HedgeTriggerPct == 75

\* hedge_multiplier of the short bot
ShortHedgeMultiplier == 2

\* rsi_trending_threshold and candle_trend_count
RsiTrendingThreshold == 70

CandleTrendCount == 3

\* Identifiers the terminal gives; an order beyond them is rejected
MaxBotTickets == 2

\* Prices in points: ask levels, the spread, and the lots in hundredths
AskLevels == {1000, 1205, 1410}

Spread == 2

\* terminal: the positions of the symbol at the broker, by identifier;
\* short_positions, hedge_positions: the lists get_position_data has built;
\* orders: what the last step has sent, with the broker's answer
NewShortBot(terminal) ==
    [at |-> "top", hedge_active |-> FALSE, pos_price |-> 0,
     short_positions |-> EmptyMap, hedge_positions |-> EmptyMap,
     ask |-> 0, bid |-> 0, current_rsi |-> 0, bullish_count |-> 0,
     terminal |-> terminal, orders |-> <<>>]

BotPosition(type, price_open, volume) ==
    [type |-> type, price_open |-> price_open, volume |-> volume]

OfType(positions, type) ==
    [i \in {j \in DOMAIN positions : positions[j].type = type} |-> positions[i]]

\* get_position_data: pos_price is the open price of the last short of the
\* list; hedge_active is set by a BUY position and cleared only by an empty
\* list. `positions_none` says that mt5.positions_get answers None, which
\* the function reads as an empty list.
GetPositionData(bot, positions_none) ==
    LET positions == IF positions_none THEN EmptyMap ELSE bot.terminal
        shorts == OfType(positions, "sell")
        hedges == OfType(positions, "buy")
        last == CHOOSE i \in DOMAIN shorts : \A j \in DOMAIN shorts : j <= i
    IN  IF positions_none \/ DOMAIN positions = {}
        THEN [bot EXCEPT !.short_positions = EmptyMap, !.hedge_positions = EmptyMap,
                         !.pos_price = 0, !.hedge_active = FALSE]
        ELSE [bot EXCEPT !.short_positions = shorts, !.hedge_positions = hedges,
                         !.hedge_active = IF DOMAIN hedges # {} THEN TRUE ELSE @,
                         !.pos_price = IF DOMAIN shorts = {} THEN 0
                                       ELSE shorts[last].price_open]

\* get_total_short_volume
GetTotalShortVolume(bot) ==
    SumOver(DOMAIN bot.short_positions,
            [i \in DOMAIN bot.short_positions |-> bot.short_positions[i].volume])

\* get_short_pnl: points times volume, the shorts closed at the bid
GetShortPnl(bot) ==
    SumOver(DOMAIN bot.short_positions,
            [i \in DOMAIN bot.short_positions |->
                (bot.short_positions[i].price_open - bot.bid)
                   * bot.short_positions[i].volume])

\* get_hedge_pnl: the hedges closed at the ask
GetHedgePnl(bot) ==
    SumOver(DOMAIN bot.hedge_positions,
            [i \in DOMAIN bot.hedge_positions |->
                (bot.ask - bot.hedge_positions[i].price_open)
                   * bot.hedge_positions[i].volume])

\* is_trending_up: the RSI above its threshold and every recent candle a
\* strong bullish one
IsTrendingUp(bot) ==
    bot.current_rsi > RsiTrendingThreshold /\ bot.bullish_count >= CandleTrendCount

\* mt5.order_send of a market order: "done" and "partial" open a position
\* under the next identifier, and only "done" answers TRADE_RETCODE_DONE
FreeIds(bot) == (1..MaxBotTickets) \ DOMAIN bot.terminal

Retcodes(bot) == IF FreeIds(bot) = {} THEN {"rejected"} ELSE {"done", "partial", "rejected"}

OrderSend(bot, kind, type, price, volume, retcode) ==
    LET id == CHOOSE i \in FreeIds(bot) : \A j \in FreeIds(bot) : i <= j
        sent == [bot EXCEPT !.orders = Append(@, [kind |-> kind, retcode |-> retcode])]
    IN  IF retcode = "rejected" THEN sent
        ELSE [sent EXCEPT !.terminal =
                 [i \in DOMAIN @ \cup {id} |->
                     IF i = id THEN BotPosition(type, price, volume) ELSE @[i]]]

\* open_hedge
OpenHedge(bot, retcode) ==
    LET sent == OrderSend(bot, "hedge", "buy", bot.ask,
                          GetTotalShortVolume(bot) * ShortHedgeMultiplier, retcode)
    IN  IF retcode = "done" THEN [sent EXCEPT !.hedge_active = TRUE] ELSE sent

\* close_all_positions: a close order for every listed short and hedge, the
\* answers not read; `fails` are the identifiers whose close is rejected
CloseAllPositions(bot, fails) ==
    LET listed == DOMAIN bot.short_positions \cup DOMAIN bot.hedge_positions
        closed == listed \ fails
    IN  [bot EXCEPT !.terminal = [i \in DOMAIN @ \ closed |-> @[i]],
                    !.orders = [k \in 1..Cardinality(listed) |->
                                   [kind |-> "close", retcode |-> "any"]],
                    !.hedge_active = FALSE]

\* Every listed position stands at its open price: each term of the two
\* sums is exactly zero
AllFlat(bot) ==
    /\ \A i \in DOMAIN bot.short_positions : bot.short_positions[i].price_open = bot.bid
    /\ \A i \in DOMAIN bot.hedge_positions : bot.hedge_positions[i].price_open = bot.ask

\* check_hedge_recovery: net_pnl >= 0 is a test on floats. Away from the
\* breakeven it is the sign of the exact sum (the sums are multiples of 0.01,
\* the rounding error is far smaller). At the exact breakeven of terms that
\* cancel, the float sum lies within the rounding error of zero on either
\* side, depending on the price level: rounds_up is its outcome.
HedgeRecovered(bot, rounds_up) ==
    LET net_pnl == GetShortPnl(bot) + GetHedgePnl(bot)
    IN  /\ bot.hedge_active
        /\ \/ net_pnl > 0
           \/ net_pnl = 0 /\ (AllFlat(bot) \/ rounds_up)

\* The float sum of check_hedge_recovery is decided by its rounding
AtBreakeven(bot) ==
    /\ bot.hedge_active
    /\ GetShortPnl(bot) + GetHedgePnl(bot) = 0
    /\ ~AllFlat(bot)

\* The trigger test without the look at hedge_active
HedgeTriggeredAnyway(bot) ==
    /\ bot.pos_price > 0
    /\ (bot.ask - bot.pos_price) * 100 >= SlShort * HedgeTriggerPct
    /\ IsTrendingUp(bot)

\* The test of the hedge trigger
HedgeTriggered(bot) ==
    /\ bot.pos_price > 0
    /\ ~bot.hedge_active
    /\ (bot.ask - bot.pos_price) * 100 >= SlShort * HedgeTriggerPct
    /\ IsTrendingUp(bot)

\* The tests of the first and of the additional entry
FirstEntry(bot, sma6H) ==
    bot.pos_price = 0 /\ bot.ask > sma6H /\ ~bot.hedge_active

AdditionalEntry(bot, sma6H, sma6L) ==
    bot.pos_price > 0 /\ bot.ask > sma6H /\ sma6L > bot.pos_price /\ ~bot.hedge_active

\* The top of the loop: get_sma, get_ask_bid, get_position_data
Poll ==
    /\ short_bot.at = "top"
    /\ \E ask \in AskLevels, current_rsi \in {60, 75} :
       \E bullish_count \in Only(current_rsi > RsiTrendingThreshold,
                                 {CandleTrendCount - 1, CandleTrendCount},
                                 CandleTrendCount),
          positions_none \in Only(DOMAIN short_bot.terminal # {}, BOOLEAN, FALSE) :
          short_bot' = GetPositionData(
             [short_bot EXCEPT !.at = "hedge", !.ask = ask, !.bid = ask - Spread,
                               !.current_rsi = current_rsi,
                               !.bullish_count = bullish_count,
                               !.pos_price = 0, !.orders = <<>>],
             positions_none)
    /\ UNCHANGED <<confluence_vars, smc>>

\* The hedge logic: with the hedge recovered everything is closed and the
\* loop starts anew
HedgeLogic ==
    /\ short_bot.at = "hedge"
    /\ \E rounds_up \in Only(AtBreakeven(short_bot), BOOLEAN, TRUE) :
          IF short_bot.hedge_active /\ HedgeRecovered(short_bot, rounds_up)
          THEN \E fails \in SUBSET (DOMAIN short_bot.short_positions
                                      \cup DOMAIN short_bot.hedge_positions) :
                  short_bot' = [CloseAllPositions(short_bot, fails) EXCEPT !.at = "top"]
          ELSE short_bot' = [short_bot EXCEPT !.at = "trigger"]
    /\ UNCHANGED <<confluence_vars, smc>>

\* The hedge trigger
HedgeTrigger ==
    /\ short_bot.at = "trigger"
    /\ IF HedgeTriggered(short_bot)
       THEN \E retcode \in Retcodes(short_bot) :
               short_bot' = [OpenHedge(short_bot, retcode) EXCEPT !.at = "entries"]
       ELSE short_bot' = [short_bot EXCEPT !.at = "entries"]
    /\ UNCHANGED <<confluence_vars, smc>>

\* position of sltp_request_sell_pos: the identifier get_position_data took
\* from the last short of its list, 0 without one
Identifier(bot) ==
    IF DOMAIN bot.short_positions = {} THEN 0
    ELSE CHOOSE i \in DOMAIN bot.short_positions :
            \A j \in DOMAIN bot.short_positions : j <= i

\* The answers to the stop-loss request: a position that is gone is refused
SltpRetcodes(bot) ==
    IF Identifier(bot) \in DOMAIN bot.terminal THEN {"done", "rejected"} ELSE {"rejected"}

\* The normal trading logic; sma6H, sma6L and is_compressed are read here
\* alone and are drawn here. After an averaging order the script sleeps
\* 0.01 s and then sends the stop-loss request (at "sltp").
Entries ==
    /\ short_bot.at = "entries"
    /\ \E sma6H \in {900, 2000}, is_compressed \in BOOLEAN :
       \E sma6L \in Only(short_bot.pos_price > 0, {900, 2000}, 900),
          retcode \in Retcodes(short_bot) :
          LET lot == IF is_compressed THEN 10 ELSE 1
              add_lot == IF is_compressed THEN 5 ELSE 1
          IN  short_bot' =
                 IF FirstEntry(short_bot, sma6H)
                 THEN [OrderSend(short_bot, "init", "sell", short_bot.bid, lot, retcode)
                          EXCEPT !.at = "top"]
                 ELSE IF AdditionalEntry(short_bot, sma6H, sma6L)
                 THEN [OrderSend(short_bot, "avg", "sell", short_bot.bid, add_lot, retcode)
                          EXCEPT !.at = "sltp"]
                 ELSE [short_bot EXCEPT !.at = "top"]
    /\ UNCHANGED <<confluence_vars, smc>>

\* check_sl = mt5.order_send(sltp_request_sell_pos): the stop loss and take
\* profit of the short the iteration found, sent after the averaging order;
\* the answer is not read
SendSltpRequest ==
    /\ short_bot.at = "sltp"
    /\ \E retcode \in SltpRetcodes(short_bot) :
          short_bot' = [short_bot EXCEPT
                          !.orders = Append(@, [kind |-> "sltp", retcode |-> retcode]),
                          !.at = "top"]
    /\ UNCHANGED <<confluence_vars, smc>>

\* The broker closes a position on its own: a short at its stop loss or take
\* profit, any position at a stop-out
BrokerCloses ==
    /\ short_bot.at # "off"
    /\ \E id \in DOMAIN short_bot.terminal :
          short_bot' = [short_bot EXCEPT !.terminal = Remove(@, id)]
    /\ UNCHANGED <<confluence_vars, smc>>

\* The script starts with an empty terminal, or over the positions an
\* earlier run has left
InitShort ==
    /\ ConfluenceIdle
    /\ smc = NoSmc
    /\ \E terminal \in {EmptyMap,
                        (1 :> BotPosition("sell", 998, 1)),
                        (1 :> BotPosition("sell", 998, 1))
                           @@ (2 :> BotPosition("buy", 1205, 2))} :
          short_bot = NewShortBot(terminal)

NextShort ==
    Poll \/ HedgeLogic \/ HedgeTrigger \/ Entries \/ SendSltpRequest \/ BrokerCloses

SpecShort == InitShort /\ [][NextShort]_vars

\* An order of the kind is sent by the step
SentNow(kind) ==
    \E i \in DOMAIN short_bot'.orders :
       /\ i > Len(short_bot.orders)
       /\ short_bot'.orders[i].kind = kind

\* The hedges open at the broker
OpenHedges(bot) == DOMAIN OfType(bot.terminal, "buy")

\* C38: with hedge_active set no initial and no averaging short order is
\* sent; a hedge order is sent only with a short in the list of this
\* iteration, hedge_active clear, the ask at least 75% of the stop-loss
\* distance above the short's open price and is_trending_up() true; and the
\* broker never holds more than one hedge.
C38_HedgeGuards ==
    [][/\ (SentNow("init") \/ SentNow("avg")) => ~short_bot.hedge_active
       /\ SentNow("hedge")
             => /\ DOMAIN short_bot.short_positions # {}
                /\ short_bot.pos_price > 0
                /\ ~short_bot.hedge_active
                /\ (short_bot.ask - short_bot.pos_price) * 100 >= SlShort * 75
                /\ short_bot.current_rsi > RsiTrendingThreshold
                /\ short_bot.bullish_count >= CandleTrendCount
       /\ Cardinality(OpenHedges(short_bot')) <= 1]_vars

\* An iteration has opened the hedge over a short and has then sent no
\* entry, although the first or the additional entry were due otherwise
C38_Witness ==
    /\ short_bot.at = "top"
    /\ short_bot.hedge_active
    /\ short_bot.orders = <<[kind |-> "hedge", retcode |-> "done"]>>
    /\ Cardinality(OpenHedges(short_bot)) = 1
    /\ DOMAIN OfType(short_bot.terminal, "sell") # {}

\* C39: when get_position_data has run at the top of an iteration,
\* hedge_active says whether the broker holds a BUY position of the symbol.
C39_FlagMatchesBroker ==
    [][(short_bot.at = "top" /\ short_bot'.at = "hedge")
          => (short_bot'.hedge_active <=> OpenHedges(short_bot') # {})]_vars

====
